---------------------------- MODULE Spec2Model ----------------------------
(***************************************************************************)
(* A model of lpt2pdf.c: the session context (PDF struct), the public API  *)
(* (pdf_open, pdf_set, pdf_print, pdf_checkpoint, pdf_close) and the       *)
(* helpers they call.  Every C function is an operator from a context      *)
(* record to a context record; the actions of the specifications apply     *)
(* them to the variable pdf.                                               *)
(*                                                                         *)
(* Representation choices                                                  *)
(*   - lengths in inches (double in C) are integers in 1/1000 inch; cpi is *)
(*     in 1/1000 characters per inch.  The value argument of pdf_set is    *)
(*     in 1/1000 as well, so that fractional arguments can be passed.      *)
(*   - bytes and 16-bit code points are integers.                          *)
(*   - longjmp(pdf->env, err) is the field thrown: the operator that       *)
(*     ABORTs returns at once with thrown = err and its callers pass the   *)
(*     record up unchanged until the setjmp of the API function.           *)
(*   - the FILE handle pdf->pdf is the pair fdata (the file's content, a   *)
(*     sequence of blocks, one per fprintf group) and fpos (ftell, counted *)
(*     in blocks).                                                         *)
(***************************************************************************)
EXTENDS Integers, Sequences, FiniteSets, TLC

VARIABLES
    pdf,      \* the session context (PDF struct) and its file
    phase,    \* "open": handle valid; "closed": pdf_close has returned
    shadow,   \* the same session, fed the same calls except checkpoints
    aux       \* history kept for the properties (see AuxInit)

vars == <<pdf, phase, shadow, aux>>

----------------------------------------------------------------------------
(* Bounds of the model *)

MaxSets == 2          \* pdf_set calls of a run of SpecCfg
MaxCfgPrints == 1     \* pdf_print calls of a run of SpecCfg
MaxPrints == 3        \* pdf_print calls of a run of Spec
MaxCheckpoints == 1   \* pdf_checkpoint calls of a run
MaxSessions == 2      \* sessions on the same file in a run of Spec
MaxFilePrints == 2    \* pdf_print calls of a run of SpecFile

----------------------------------------------------------------------------
(* Program constants *)

PDF_FILE_NEW == 0
PDF_FILE_APPEND == 1
PDF_FILE_REPLACE == 2

PDF_PLAIN == 0
PDF_GREENBAR == 1
PDF_JPEG == 99

\* ~1u, the "tof not set" marker of the defaults; it stands outside the
\* range of the tof values the model draws.
TOF_UNSET == -2

\* DIM (colors): names of the forms, in table order
FormNames ==
    << <<"P","L","A","I","N">>,
       <<"G","R","E","E","N","B","A","R">>,
       <<"B","L","U","E","B","A","R">>,
       <<"G","R","A","Y","B","A","R">>,
       <<"Y","E","L","L","O","W","B","A","R">> >>

validFonts ==
    { "Courier", "Courier-Bold", "Courier-Oblique", "Courier-BoldOblique",
      "Times-Roman", "Times-Bold", "Times-Italic", "Times-BoldItalic",
      "Helvetica", "Helvetica-Bold", "HelveticaOblique",
      "Helvetica-BoldOblique", "Symbol", "ZapfDingbats" }

\* A NULL char pointer argument: NULL where the program compares the
\* string as a whole (fonts, file names), NULLS where it reads the string
\* character by character (names of policies and forms, titles)
NULL == "<NULL>"
NULLS == <<NULL>>

\* defaults.title, "Lineprinter data"; titles are sequences of characters
DefaultTitle ==
    <<"L","i","n","e","p","r","i","n","t","e","r"," ","d","a","t","a">>

\* escstate
ESC_IDLE == 0
ESC_ESCSEQ == 1
ESC_CSI == 2
ESC_CSIP == 3
ESC_CSIINT == 4
ESC_BADCSI == 5
ESC_BADESC == 6
ESC_BADSTR == 7

ESC_PDEFAULT == 65535
ESC_POVERFLOW == 32768

\* Bytes with a meaning to the parser and the paginator
LF == 10
FF == 12
CR == 13

----------------------------------------------------------------------------
(* C library helpers *)

UpperCase == <<"A","B","C","D","E","F","G","H","I","J","K","L","M",
               "N","O","P","Q","R","S","T","U","V","W","X","Y","Z">>
LowerCase == <<"a","b","c","d","e","f","g","h","i","j","k","l","m",
               "n","o","p","q","r","s","t","u","v","w","x","y","z">>

tolower(c) ==
    IF \E i \in 1..26 : UpperCase[i] = c
    THEN LowerCase[CHOOSE i \in 1..26 : UpperCase[i] = c]
    ELSE c

\* xstrcasecmp (s1, s2) == 0
xstrcasecmp0(s1, s2) ==
    /\ Len(s1) = Len(s2)
    /\ \A i \in 1..Len(s1) : s1[i] = s2[i] \/ tolower(s1[i]) = tolower(s2[i])

\* (int) x for x in 1/1000: truncation toward zero
IntOf(x) == IF x >= 0 THEN x \div 1000 ELSE -((-x) \div 1000)

----------------------------------------------------------------------------
(* SHA-1: the hash is a black box, a function of the bytes hashed *)

SHA1Reset == [data |-> <<>>, done |-> FALSE, corrupted |-> FALSE]

SHA1Input(sha, message) ==
    IF message = <<>> THEN sha
    ELSE IF sha.done THEN [sha EXCEPT !.corrupted = TRUE]
    ELSE IF sha.corrupted THEN sha
    ELSE [sha EXCEPT !.data = @ \o message]

SHA1Result(sha) == IF sha.corrupted THEN sha ELSE [sha EXCEPT !.done = TRUE]

\* What stands in the hash for the 40 digits of the ID of the file
\* appended to, and for the text of the info object
HashedId == <<"/ID">>
HashedInfo == <<"/Info">>

----------------------------------------------------------------------------
(* pdf_open: the context holds the defaults, the rest is zero *)

defaults ==
    [ frequire |-> PDF_FILE_NEW,
      cpi      |-> 10000,
      lpi      |-> 6,
      newlpi   |-> 6,
      cols     |-> 132,
      wid      |-> 14875,
      len      |-> 11000,
      font     |-> "Courier",
      nfont    |-> "Times-Roman",
      nbold    |-> "Times-Bold",
      title    |-> DefaultTitle,
      top      |-> 1000,
      tof      |-> TOF_UNSET,
      bot      |-> 500,
      margin   |-> 470,
      lno      |-> 100,
      formtype |-> PDF_GREENBAR,
      barh     |-> 500,
      \* below this point initialized to zero
      errnum   |-> "OK",
      formfile |-> NULL,
      flags    |-> {},
      lpp      |-> 0,
      escstate |-> ESC_IDLE,
      escints  |-> [i \in 1..4 |-> 0],
      escin    |-> 0,
      escprv   |-> 0,
      escpars  |-> [i \in 1..16 |-> 0],
      escpn    |-> 0,
      parsebuf |-> <<>>,
      formlen  |-> 0,
      formobj  |-> 0,
      oid      |-> "",
      prevpc   |-> 0,
      trail    |-> NULL,
      anchorp  |-> 0,
      anchorpp |-> 0,
      checkpp  |-> 0,
      aobj     |-> 0,
      obj      |-> 0,
      xref     |-> <<>>,
      lines    |-> <<>>,
      linep    |-> <<>>,
      page     |-> 0,
      line     |-> 0,
      pbase    |-> 0,
      iobj     |-> 0,
      \* the file behind the handle pdf->pdf
      fdata    |-> <<>>,
      fpos     |-> 0,
      \* the error indicator of the stream (ferror), and the environment:
      \* the device refuses every write
      ferror   |-> FALSE,
      full     |-> FALSE,
      \* the context of the hash of the document ID: the bytes hashed
      \* (the hash is a function of them), Computed and Corrupted
      sha1     |-> [data |-> <<>>, done |-> FALSE, corrupted |-> FALSE],
      \* a store to lbuf[nc] of pdf_print fell outside lbuf
      overrun  |-> FALSE,
      \* escpars[escpn] was read or written with escpn outside escpars
      escoob   |-> FALSE,
      \* not fields of the struct: the return value of the last API call
      \* and the pending longjmp
      ret      |-> "OK",
      thrown   |-> "" ]

\* The configuration keys of the context (first section of the struct,
\* plus formfile and the UNCOMPRESSED flag set by PDF_NO_LZW)
ConfigOf(p) ==
    [ frequire |-> p.frequire, cpi |-> p.cpi, lpi |-> p.lpi, cols |-> p.cols,
      wid |-> p.wid, len |-> p.len, font |-> p.font, nfont |-> p.nfont,
      nbold |-> p.nbold, title |-> p.title, top |-> p.top, tof |-> p.tof,
      bot |-> p.bot, margin |-> p.margin, lno |-> p.lno,
      formtype |-> p.formtype, barh |-> p.barh, formfile |-> p.formfile,
      nolzw |-> ("UNCOMPRESSED" \in p.flags) ]

----------------------------------------------------------------------------
(* pdf_set *)

checkfont(newfont) ==
    IF newfont = NULL THEN "INVAL"
    ELSE IF newfont \in validFonts THEN "OK"
    ELSE "UNKNOWN_FONT"

\* The string keys that end in the common "if (font)" tail: which field
\* the pointer font addresses
FontField(arg) ==
    CASE arg = "TEXT_FONT"  -> "font"
      [] arg = "LNO_FONT"   -> "font"
      [] arg = "LABEL_FONT" -> "font"
      [] arg = "FORM_IMAGE" -> "formfile"
      [] arg = "TITLE"      -> "title"

Ret(p, r) == [p EXCEPT !.ret = r]

\* REJECT_NULL
RejectNull(p) == [p EXCEPT !.errnum = "INVAL", !.ret = "INVAL"]

\* The second switch of pdfset: the numeric keys.  ABORT restores the copy
\* oldvals of the whole context and returns the code.
SetNumeric(p, arg, dvalue) ==
    LET ivalue == IntOf(dvalue)
        abort(err) == Ret(p, err)    \* memcpy (pdf, &oldvals, ...); return r
    IN  CASE arg = "NO_LZW" ->
               Ret([p EXCEPT !.flags = IF dvalue # 0
                                       THEN @ \cup {"UNCOMPRESSED"}
                                       ELSE @ \ {"UNCOMPRESSED"}], "OK")
          [] arg = "TOP_MARGIN"    -> Ret([p EXCEPT !.top = dvalue], "OK")
          [] arg = "TOF_OFFSET"    -> Ret([p EXCEPT !.tof = ivalue], "OK")
          [] arg = "BOTTOM_MARGIN" -> Ret([p EXCEPT !.bot = dvalue], "OK")
          [] arg = "SIDE_MARGIN"   ->
               IF dvalue < 350 THEN abort("INVAL")
               ELSE Ret([p EXCEPT !.margin = dvalue], "OK")
          [] arg = "LNO_WIDTH"     ->
               IF dvalue # 0 /\ dvalue < 100 THEN abort("INVAL")
               ELSE Ret([p EXCEPT !.lno = dvalue], "OK")
          [] arg = "BAR_HEIGHT"    ->
               IF dvalue < 0 THEN abort("INVAL")
               ELSE Ret([p EXCEPT !.barh = dvalue], "OK")
          [] arg = "CPI"           ->
               IF dvalue < 1000 \/ dvalue > 20000 THEN abort("INVAL")
               ELSE Ret([p EXCEPT !.cpi = dvalue], "OK")
          [] arg = "LPI"           ->
               IF dvalue # 6000 /\ dvalue # 8000 THEN abort("INVAL")
               ELSE Ret([p EXCEPT !.lpi = ivalue], "OK")
          [] arg = "PAGE_WIDTH"    ->
               IF dvalue < 3000 THEN abort("INVAL")
               ELSE Ret([p EXCEPT !.wid = dvalue], "OK")
          [] arg = "PAGE_LENGTH"   ->
               IF dvalue < 2000 THEN abort("INVAL")
               ELSE Ret([p EXCEPT !.len = dvalue], "OK")
          [] arg = "COLS"          -> Ret([p EXCEPT !.cols = ivalue], "OK")
          [] OTHER                 -> abort("BAD_SET")

\* if (font) { ... strcpy (*font, svalue); return PDF_OK; }
SetString_CopyFirst(p, arg, svalue, r) ==
    [p EXCEPT ![FontField(arg)] = svalue,
              !.errnum = IF r # "OK" THEN r ELSE @, !.ret = r]
SetString(p, arg, svalue, r) ==
    IF r # "OK" THEN [p EXCEPT !.errnum = r, !.ret = r]
    ELSE Ret([p EXCEPT ![FontField(arg)] = svalue], "OK")

\* PDF_TITLE: a backslash before each of \ ( ) ; tbuf holds 2048 bytes,
\* far more than the titles drawn here
RECURSIVE EscTitle(_)
EscTitle(svalue) ==
    IF svalue = <<>> THEN <<>>
    ELSE (IF Head(svalue) \in {"\\", "(", ")"}
          THEN <<"\\", Head(svalue)>> ELSE <<Head(svalue)>>)
         \o EscTitle(Tail(svalue))

\* if (pdf->flags & PDF_ACTIVE): the context is locked down
Locked_Never(p) == FALSE
Locked(p) == "ACTIVE" \in p.flags

\* pdfset (pdf, arg, ap).  value is the vararg: a string for the string
\* keys, a number in 1/1000 for the others; exists tells whether
\* fopen (svalue, "rb") succeeds (PDF_FORM_IMAGE only).
pdfset(p, arg, value, exists) ==
    IF Locked(p) THEN Ret(p, "ACTIVE")
    ELSE CASE arg = "FILE_REQUIRE" ->
                IF value = NULLS THEN RejectNull(p)
                ELSE IF xstrcasecmp0(value, <<"N","E","W">>)
                     THEN Ret([p EXCEPT !.frequire = PDF_FILE_NEW], "OK")
                ELSE IF xstrcasecmp0(value, <<"A","P","P","E","N","D">>)
                     THEN Ret([p EXCEPT !.frequire = PDF_FILE_APPEND], "OK")
                ELSE IF xstrcasecmp0(value, <<"R","E","P","L","A","C","E">>)
                     THEN Ret([p EXCEPT !.frequire = PDF_FILE_REPLACE], "OK")
                ELSE Ret(p, "BAD_SET")
           [] arg = "FORM_TYPE" ->
                IF value = NULLS THEN RejectNull(p)
                ELSE IF \E i \in 1..Len(FormNames) : xstrcasecmp0(value, FormNames[i])
                     THEN Ret([p EXCEPT !.formtype =
                                 (CHOOSE i \in 1..Len(FormNames) :
                                     /\ xstrcasecmp0(value, FormNames[i])
                                     /\ \A j \in 1..(i-1) :
                                          ~xstrcasecmp0(value, FormNames[j])) - 1],
                              "OK")
                ELSE Ret(p, "UNKNOWN_FORM")
           [] arg \in {"TEXT_FONT", "LNO_FONT", "LABEL_FONT"} ->
                SetString(p, arg, value, checkfont(value))
           [] arg = "FORM_IMAGE" ->
                IF value = NULL THEN RejectNull(p)
                ELSE IF ~exists THEN Ret(p, "ENOENT")
                ELSE SetString([p EXCEPT !.formtype = PDF_JPEG], arg, value, "OK")
           [] arg = "TITLE" ->
                IF value = NULLS THEN RejectNull(p)
                ELSE SetString(p, arg, EscTitle(value), "OK")
           [] OTHER ->
                IF value < 0 THEN Ret(p, "NEGVAL")
                ELSE SetNumeric(p, arg, value)

\* pdf_set: the public wrapper records a failure in errnum
pdf_set(p, arg, value, exists) ==
    LET record(q) == IF q.ret # "OK" THEN [q EXCEPT !.errnum = q.ret] ELSE q
    IN  record(pdfset(p, arg, value, exists))

----------------------------------------------------------------------------
(* parsestr: the escape and control sequence parser *)

\* "!pdf->escints": escints is an array member, its address is never null
EscintsIsNull == FALSE

\* if (pdf->escpn +1 < DIM (pdf->escpars)): there is room for one more
\* parameter
ParamRoom_Late(escpn) == escpn < 16
ParamRoom(escpn) == escpn + 1 < 16

\* The second switch of parsestr, on escstate.  Returns the context and
\* whether the character is stored (STORE) or not (DISCARD).
ParseSeq(p, ch) ==
    LET D(q) == [p |-> q, store |-> FALSE]
        S(q) == [p |-> q, store |-> TRUE]
        CsiInt(q) ==
            IF ch >= 32 /\ ch <= 47
            THEN IF q.escin < 4
                 THEN D([q EXCEPT !.escints[q.escin + 1] = ch, !.escin = @ + 1])
                 ELSE D([q EXCEPT !.escstate = ESC_BADCSI])
            ELSE IF ch >= 64 /\ ch <= 126
            THEN IF ch = 122 /\ EscintsIsNull /\ q.escprv = 0
                 THEN LET p0 == IF q.escpars[1] = ESC_PDEFAULT THEN 1
                                ELSE q.escpars[1]
                      IN  IF p0 = 1 THEN D([q EXCEPT !.newlpi = 6])
                          ELSE IF p0 = 2 THEN D([q EXCEPT !.newlpi = 8])
                          ELSE D(q)
                 ELSE D(q)
            ELSE S(q)
        \* pdf->escpars[pdf->escpn]: outside the array the access is
        \* recorded, the read finds some number and the write is lost
        par(q) == IF q.escpn < 16 THEN q.escpars[q.escpn + 1] ELSE 0
        set(q, v) == IF q.escpn < 16
                     THEN [q EXCEPT !.escpars[q.escpn + 1] = v] ELSE q
        at(q) == [q EXCEPT !.escoob = @ \/ q.escpn >= 16]
        CsiP(q) ==
            IF ch >= 48 /\ ch <= 63
            THEN IF ch = 59
                 THEN IF ParamRoom(q.escpn)
                      THEN D([q EXCEPT !.escpn = @ + 1])
                      ELSE D([q EXCEPT !.escstate = ESC_BADCSI])
                 ELSE IF ch <= 57
                 THEN IF par(q) = ESC_PDEFAULT
                      THEN D(set(at(q), ch - 48))
                      ELSE IF (par(q) \div ESC_POVERFLOW) % 2 = 1
                      THEN D([at(q) EXCEPT !.escstate = ESC_BADCSI])
                      ELSE D(set(at(q), ((par(q) * 10) + (ch - 48)) % 65536))
                 ELSE D([q EXCEPT !.escstate = ESC_BADCSI])
            ELSE CsiInt([at(q) EXCEPT
                           !.escpn = IF par(q) # ESC_PDEFAULT
                                     THEN @ + 1 ELSE @,
                           !.escstate = ESC_CSIINT])
    IN  CASE p.escstate = ESC_IDLE ->
               IF ch < 32 \/ (ch >= 127 /\ ch <= 159) THEN D(p) ELSE S(p)
          [] p.escstate = ESC_ESCSEQ ->
               IF ch >= 32 /\ ch <= 47
               THEN IF p.escin < 16
                    THEN D([p EXCEPT !.escpars[p.escin + 1] = ch, !.escin = @ + 1])
                    ELSE D([p EXCEPT !.escstate = ESC_BADESC])
               ELSE IF ch >= 48 /\ ch <= 126
               THEN D([p EXCEPT !.escstate = ESC_IDLE])
               ELSE S(p)
          [] p.escstate = ESC_CSI ->
               IF ch >= 60 /\ ch <= 63
               THEN D([p EXCEPT !.escprv = ch, !.escstate = ESC_CSIP])
               ELSE CsiP([p EXCEPT !.escstate = ESC_CSIP])
          [] p.escstate = ESC_CSIP -> CsiP(p)
          [] p.escstate = ESC_CSIINT -> CsiInt(p)
          [] p.escstate = ESC_BADCSI ->
               IF ch >= 64 /\ ch <= 126
               THEN D([p EXCEPT !.escstate = ESC_IDLE]) ELSE D(p)
          [] p.escstate = ESC_BADESC ->
               IF ch >= 48 /\ ch <= 126
               THEN D([p EXCEPT !.escstate = ESC_IDLE]) ELSE D(p)
          [] p.escstate = ESC_BADSTR -> D(p)
          [] OTHER -> S(p)

\* One iteration of the while loop of parsestr.  st holds the context p
\* and the locals initial and ffseen.
ParseByte(st, byte) ==
    LET ext == st.p.escstate = ESC_ESCSEQ /\ byte >= 64 /\ byte <= 95
        ch  == IF ext THEN byte + 64 ELSE byte
        p1  == IF ext THEN [st.p EXCEPT !.escstate = ESC_IDLE] ELSE st.p
        store(q) == [st EXCEPT !.p = [q EXCEPT !.parsebuf = Append(@, ch)],
                               !.initial = FALSE]
        discard(q) == [st EXCEPT !.p = q]
        seq(r) == IF r.store THEN store(r.p) ELSE discard(r.p)
    IN  CASE ch = LF -> store(p1)
          [] ch = CR -> IF st.initial /\ st.ffseen = 0
                        THEN discard(p1) ELSE store(p1)
          [] ch = FF -> IF st.initial
                        THEN IF st.ffseen = 0
                             THEN [discard(p1) EXCEPT !.ffseen = 1]
                             ELSE [store(p1) EXCEPT !.ffseen = @ + 1]
                        ELSE store(p1)
          [] ch \in {24, 26} -> discard([p1 EXCEPT !.escstate = ESC_IDLE])
          [] ch = 27 -> discard([p1 EXCEPT !.escstate = ESC_ESCSEQ,
                                          !.escin = 0, !.escpn = 0])
          [] ch = 155 -> discard([p1 EXCEPT !.escstate = ESC_CSI,
                                           !.escin = 0, !.escpn = 0,
                                           !.escpars = [i \in 1..16 |-> ESC_PDEFAULT]])
          [] ch = 156 -> discard([p1 EXCEPT !.escstate = ESC_IDLE])
          [] ch \in {157, 158, 159} -> discard([p1 EXCEPT !.escstate = ESC_BADSTR])
          [] OTHER -> seq(ParseSeq(p1, ch))

\* The bytes lo..hi of the string, in order
RECURSIVE ParseRange(_, _, _, _)
ParseRange(st, string, lo, hi) ==
    IF lo > hi \/ st.p.thrown # "" THEN st
    ELSE IF lo = hi THEN ParseByte(st, string[lo])
    ELSE ParseRange(ParseRange(st, string, lo, (lo + hi) \div 2),
                    string, (lo + hi) \div 2 + 1, hi)

ParseLoop(st, string) == ParseRange(st, string, 1, Len(string))

\* parsestr (pdf, string, length, initial): the parsed characters are
\* appended to parsebuf; the result is the context and the value returned
\* (ffseen, true if an initial form feed was discarded).
parsestr(p, string, initial) ==
    ParseLoop([p |-> [p EXCEPT !.sha1 = SHA1Input(@, string)],
               initial |-> initial, ffseen |-> 0], string)

----------------------------------------------------------------------------
(* The output file.  fdata is the content of the file, a sequence of       *)
(* blocks; fpos is the position of the handle, the number of blocks before *)
(* it.  A block is what one group of fprintf/fwrite calls writes: the file *)
(* header, an object, the xref table, the trailer with startxref and EOF.  *)

Abort(p, err) == [p EXCEPT !.thrown = err]

\* fprintf/fputs/fwrite of one block at the current position
fwrite(p, blk) ==
    IF p.full THEN [p EXCEPT !.ferror = TRUE]
    ELSE [p EXCEPT !.fdata = IF p.fpos < Len(@)
                             THEN [@ EXCEPT ![p.fpos + 1] = blk]
                             ELSE Append(@, blk),
                   !.fpos = @ + 1]

\* ftruncate (fileno (pdf->pdf), ftell (pdf->pdf))
ftruncate(p, length) == [p EXCEPT !.fdata = SubSeq(@, 1, length)]

\* addobj: the next object number; its slot of xref takes the position
addobj_Late(p) ==
    [p EXCEPT !.xref = IF p.obj < Len(@) THEN [@ EXCEPT ![p.obj + 1] = p.fpos + 1]
                       ELSE Append(@, p.fpos + 1),
              !.obj = @ + 1]
addobj(p) ==
    [p EXCEPT !.xref = IF p.obj < Len(@) THEN [@ EXCEPT ![p.obj + 1] = p.fpos]
                       ELSE Append(@, p.fpos),
              !.obj = @ + 1]

HeaderBlock == [t |-> "header", version |-> "%PDF-1.4"]

\* wrhdr: the file header of a new file, or the previous anchor rewritten
\* with a blank /Parent slot when updating.  The /Parent of a /Pages
\* object is 0 when the key is absent, -1 when it is the blank slot of ten
\* characters, the object number otherwise.
wrhdr(p) ==
    LET new(q) == [q EXCEPT !.flags = @ \cup {"WRITTEN"}]
        \* fputs (...) == EOF
        puts(q) == IF q.full THEN Abort(fwrite(q, HeaderBlock), "IO_ERROR")
                   ELSE new(fwrite(q, HeaderBlock))
        check(q) == IF q.ferror THEN Abort(q, "IO_ERROR") ELSE q
        back(q) == check(IF q.checkpp # 0 THEN [q EXCEPT !.fpos = q.checkpp]
                         ELSE q)
    IN  IF "UPDATING" \notin p.flags
        THEN IF p.checkpp = 0 THEN puts(p) ELSE new(p)
        ELSE IF p.prevpc # p.trail.count THEN Abort(p, "INCON_GEO")
        ELSE back(fwrite([p EXCEPT !.flags = @ \cup {"WRITTEN"},
                                   !.fpos = p.anchorp, !.anchorpp = p.anchorp],
                         [p.trail EXCEPT !.parent = -1]))

\* imageform: the image XObject of the session
imageform(p) ==
    LET image(q) == [fwrite(q, [t |-> "image", obj |-> q.obj, file |-> p.formfile])
                        EXCEPT !.formobj = q.obj, !.pbase = q.obj + 1]
    IN  IF "INIT" \in p.flags THEN p ELSE image(addobj(p))

\* setform: the graphics common to all pages are rendered once into formbuf
setform(p) ==
    LET done(q) == [q EXCEPT !.formlen = 1]
    IN  done(IF p.formtype = PDF_JPEG THEN imageform(p) ELSE p)

----------------------------------------------------------------------------
(* The line buffer and the page writer *)

\* add2line: append text to the current line.  lines[l] is the content of
\* line l (linelen[l-1] characters), linep[l] tells whether the pointer
\* lines[l-1] is non-NULL; nlines is Len(lines).
add2line(p, text) ==
    IF p.line <= 0 THEN Abort(p, "BUGCHECK")
    ELSE LET more  == p.line - Len(p.lines)
             grown == IF more > 0 THEN p.lines \o [i \in 1..more |-> <<>>]
                      ELSE p.lines
             ptrs  == IF more > 0 THEN p.linep \o [i \in 1..more |-> FALSE]
                      ELSE p.linep
         IN  [p EXCEPT !.lines = [grown EXCEPT ![p.line] = @ \o text],
                       !.linep = [ptrs EXCEPT ![p.line] = TRUE]]

Min(a, b) == IF a < b THEN a ELSE b

\* The scan of wrpage after a CR marker at column col: TRUE when a
\* character other than CR and space follows on the line
DataFollows_Any(line, col) == col < Len(line)
DataFollows(line, col) ==
    \E k \in (col + 1)..Len(line) : line[k] \notin {CR, 32}

\* The text strings that wrpage writes for a line, from column col on.
\* segs holds the strings begun so far, the last one open: " T* (" opens
\* the first when the first column is reached, ")Tj 0 0 Td (" closes it
\* and opens the next, '\', '(' and ')' are written after a '\', a CR is
\* not written.
RenderCol(line, col, segs) ==
    LET on == IF segs = <<>> THEN << <<>> >> ELSE segs
        ch == line[col]
        w(sg, c) == [sg EXCEPT ![Len(sg)] = Append(@, c)]
    IN  IF ch \in {92, 40, 41} THEN w(w(on, 92), ch)
        ELSE IF ch = CR
        THEN IF DataFollows(line, col) THEN Append(on, <<>>) ELSE on
        ELSE w(on, ch)

\* The columns lo..hi, in order
RECURSIVE RenderRange(_, _, _, _)
RenderRange(line, lo, hi, segs) ==
    IF lo > hi \/ Len(segs) < 0 THEN segs
    ELSE IF lo = hi THEN RenderCol(line, lo, segs)
    ELSE RenderRange(line, (lo + hi) \div 2 + 1, hi,
                     RenderRange(line, lo, (lo + hi) \div 2, segs))

RenderFrom(line, col, segs) == RenderRange(line, col, Len(line), segs)

\* The strings of a line, each shown by Tj; none (" T*" alone) for a line
\* never allocated and for a line of length 0
RenderLine(line, allocated) ==
    IF allocated THEN RenderFrom(line, 1, <<>>) ELSE <<>>

\* The lines of the top of the next page (1..tof) that wrpage swaps with
\* the line lpp further down: those whose pointer beyond lpp is not NULL
Carries_None(p, nl) == {}
Carries(p, nl) ==
    IF p.tof < nl
    THEN {l \in 1..p.tof : p.lpp + l <= nl /\ p.linep[p.lpp + l]}
    ELSE {}

\* wrpage: render the current page into a new content stream object, then
\* move the lines written beyond lpp to the top of the next page.
\* The block holds the lines rendered, in order (text), and the text
\* strings written for each of them (show).
wrpage(p) ==
    LET line   == IF p.line > p.lpp THEN p.lpp ELSE p.line
        q      == addobj(p)
        nl     == Len(p.lines)
        n      == Min(line, nl)
        text   == [l \in 1..n |-> p.lines[l]]
        show   == [l \in 1..n |-> RenderLine(p.lines[l], p.linep[l])]
        \* pdf->linelen[l] = 0 for the lines rendered
        wiped  == [l \in 1..nl |-> IF l <= n THEN <<>> ELSE p.lines[l]]
        \* the swap of lines[l] and lines[lpp + l] for l < tof (0-based),
        \* done when the pointer of the line beyond lpp is not NULL
        moves  == Carries(p, nl)
        other(l) == IF l \in moves THEN p.lpp + l
                    ELSE IF l > p.lpp /\ (l - p.lpp) \in moves THEN l - p.lpp
                    ELSE l
        swapped == [l \in 1..nl |-> wiped[other(l)]]
        ptrs    == [l \in 1..nl |-> p.linep[other(l)]]
        newline == IF \E l \in moves : swapped[l] # <<>> THEN p.tof + 1 ELSE 0
        \* if (ferror (pdf->pdf)) pdf->errnum = E(IO_ERROR)
        check(w) == IF w.ferror THEN [w EXCEPT !.errnum = "IO_ERROR"] ELSE w
    IN  check(fwrite([q EXCEPT !.lines = swapped, !.linep = ptrs,
                               !.page = @ + 1, !.line = newline],
                     [t |-> "stream", obj |-> q.obj, text |-> text,
                      show |-> show]))

----------------------------------------------------------------------------
(* First output: pdfinit and checkupdate *)

Producer == "LPTPDF Version 1.0"

\* readobj succeeds: the xref slot of obj leads to a block "obj 0 obj"
ObjAt(p, obj) ==
    /\ obj >= 1 /\ obj <= p.obj
    /\ p.xref[obj] + 1 \in 1..Len(p.fdata)
    /\ "obj" \in DOMAIN p.fdata[p.xref[obj] + 1]
    /\ p.fdata[p.xref[obj] + 1].obj = obj

\* pdf->obj = pdf->pbase -1: new objects are allocated from the number of
\* the old catalog
ResumeObj_Keep(root) == root
ResumeObj(root) == root - 1

\* checkupdate: validate the existing file and load what an append needs.
\* The result is the context with ret "OK" (updating), "EMPTY" (the C
\* function returns -1: empty file, write as new) or thrown set.
checkupdate(p) ==
    LET end  == Len(p.fdata)
        last == p.fdata[end]
        xpos == last.startxref
        xr   == p.fdata[xpos + 1]
        \* the xref read into the context, one addobj per entry in use
        q    == [p EXCEPT !.fpos = end, !.obj = xr.n - 1, !.xref = xr.offs]
        info == q.fdata[q.xref[last.info] + 1]
        cat  == q.fdata[q.xref[last.root] + 1]
        anc  == q.fdata[q.xref[cat.pages] + 1]
        no   == Abort([p EXCEPT !.fpos = end], "NO_APPEND")
    IN  IF end = 0 THEN Ret(p, "EMPTY")
        ELSE IF p.fdata[1].t # "header"      \* the first line has been read
             THEN Abort([p EXCEPT !.fpos = 1], "NOT_PDF")
        ELSE IF last.t # "trailer" THEN no
        ELSE IF xpos < 1 \/ xpos >= end - 1 THEN no
        ELSE IF xr.t # "xref" \/ xr.first # 0 \/ xr.n < 4 THEN no
        ELSE IF \E i \in 1..Len(xr.offs) : xr.offs[i] = 0 THEN no
        ELSE IF last.info < 1 \/ last.info > q.obj THEN no
        ELSE IF last.root < 1 \/ last.root > q.obj THEN no
        ELSE IF last.root >= last.info THEN no
        ELSE IF ~ObjAt(q, last.info) THEN no
        ELSE IF info.t # "info" \/ info.producer # Producer
             THEN Abort([q EXCEPT !.sha1 = SHA1Input(@, HashedId)],
                        "NOT_PRODUCED")
        ELSE IF ~ObjAt(q, last.root) \/ cat.t # "catalog" THEN no
        ELSE IF cat.pages < 1 \/ cat.pages > q.obj THEN no
        ELSE IF cat.pages # last.root - 1 THEN no
        ELSE IF ~ObjAt(q, cat.pages) \/ anc.t # "pages" \/ anc.parent # 0 THEN no
        ELSE Ret([q EXCEPT !.oid = last.id[1],
                           !.sha1 = SHA1Input(@, HashedId),
                           !.iobj = last.info,
                           !.pbase = last.root,
                           !.aobj = cat.pages,
                           !.anchorp = q.xref[cat.pages],
                           !.prevpc = anc.count,
                           !.trail = anc,
                           !.flags = @ \cup {"UPDATING"},
                           !.obj = ResumeObj(last.root)], "OK")

\* if (pdf->frequire == PDF_FILE_NEW): a file with content is refused
MustBeEmpty_Never(p) == FALSE
MustBeEmpty(p) == p.frequire = PDF_FILE_NEW

\* pdfinit: apply the file policy at the first pdf_print.  A handle that is
\* not at the start of the file ABORTs with whatever errno holds.
pdfinit(p) ==
    LET new(q) == [q EXCEPT !.pbase = 1]
        append(q) == IF q.thrown # "" THEN q
                     ELSE IF q.ret = "OK" THEN q
                     ELSE new([q EXCEPT !.fpos = Len(q.fdata)])
        write(q) == IF q.fpos # 0
                    THEN IF MustBeEmpty(q) THEN Abort(q, "NOT_EMPTY")
                         ELSE new(ftruncate([q EXCEPT !.fpos = 0], 0))
                    ELSE new(q)
        reset(q) == [q EXCEPT !.sha1 = SHA1Reset]
    IN  IF p.fpos # 0 THEN Abort(reset(p), "ERRNO")
        ELSE IF p.frequire = PDF_FILE_APPEND
        THEN append(checkupdate(reset(p)))
        ELSE write([reset(p) EXCEPT !.fpos = Len(p.fdata)])  \* fseek SEEK_END

----------------------------------------------------------------------------
(* pdf_print *)

\* The consistency checks of the first write: TRUE when one of them ABORTs
\* with INCON_GEO.  p has lpp and tof already computed.
InconGeo(p) ==
    LET pw == IntOf(p.wid - (2 * (p.margin + p.lno)))
    IN  \/ IntOf(p.len) < 2
        \/ pw < 3
        \/ pw < (p.cols * 1000) \div p.cpi
        \/ p.len * p.lpi < 4000
        \/ p.tof * 1000 > p.len * p.lpi
        \/ (p.formtype # PDF_JPEG /\ p.barh * p.lpi < 1000)

\* if (ps->line == 0) ps->line = ps->tof + 1
TopOfForm(p) == IF p.line = 0 THEN [p EXCEPT !.line = p.tof + 1] ELSE p

\* FLUSH_LBUF
FlushLbuf(p, lbuf) == IF lbuf # <<>> THEN add2line(p, lbuf) ELSE p

\* if (ps->line > ps->lpp + ps->tof): the line is past the page
PastPage_NoTof(p) == p.line > p.lpp
PastPage(p) == p.line > p.lpp + p.tof

\* short lbuf[150]: the elements of the local accumulator of pdf_print,
\* and the bytes of an element
LbufElems == 150
SizeofShort == 2

\* if (nc >= sizeof (lbuf) -1): the accumulator is flushed when it holds
\* as many characters as lbuf has bytes, less one
LbufFull(nc) == nc >= LbufElems * SizeofShort - 1

\* One turn of the loop over c; st holds the context p and the
\* accumulator lbuf
PrintChar(st, c) ==
    LET to(q, buf) == [p |-> q, lbuf |-> buf]
        eject(q) == IF q.thrown # "" THEN to(q, <<>>)
                    ELSE to(wrpage(q), <<>>)
        feed(n) == to([n EXCEPT !.line = @ + 1], <<>>)
        \* lbuf[nc++] = c
        store(q, buf) ==
            IF LbufFull(Len(buf) + 1)
            THEN to(FlushLbuf(q, Append(buf, c)), <<>>)
            ELSE to(q, Append(buf, c))
        mark(q, buf) ==
            store([q EXCEPT !.overrun = @ \/ Len(buf) >= LbufElems], buf)
        put(q, buf) == IF q.thrown # "" THEN to(q, buf)
                       ELSE IF c = LF THEN feed(FlushLbuf(TopOfForm(q), buf))
                       ELSE mark(TopOfForm(q), buf)
        past(f) == put(IF f.thrown = "" THEN wrpage(f) ELSE f, <<>>)
    IN  IF c = FF THEN eject(FlushLbuf(TopOfForm(st.p), st.lbuf))
        ELSE IF PastPage(st.p) THEN past(FlushLbuf(st.p, st.lbuf))
        ELSE put(st.p, st.lbuf)

\* The turns lo..hi of the loop, in order; a longjmp ends it
RECURSIVE PrintRange(_, _, _, _)
PrintRange(st, parsed, lo, hi) ==
    IF lo > hi \/ st.p.thrown # "" THEN st
    ELSE IF lo = hi THEN PrintChar(st, parsed[lo])
    ELSE PrintRange(PrintRange(st, parsed, lo, (lo + hi) \div 2),
                    parsed, (lo + hi) \div 2 + 1, hi)

\* The loop of pdf_print over the parsed characters, and the FLUSH_LBUF
\* that follows it; lbuf is the local accumulator (nc characters)
PrintLoop(p, parsed, lbuf) ==
    LET flush(st) == IF st.p.thrown # "" THEN st.p
                     ELSE FlushLbuf(st.p, st.lbuf)
    IN  flush(PrintRange([p |-> p, lbuf |-> lbuf], parsed, 1, Len(parsed)))

\* if (!length && !r): nothing was parsed and no form feed was stripped
NothingSeen_NoFF(st) == st.p.parsebuf = <<>>
NothingSeen(st) == st.p.parsebuf = <<>> /\ st.ffseen = 0

\* The body of pdf_print after setjmp; ret is the value returned, unless
\* thrown is set
PrintBody(p, string) ==
    LET errnum(d) == Ret(d, d.errnum)
        tail(q, parsed) ==
            \* from "ps->parseused = 0" after the if/else
            IF q.errnum # "OK" THEN Ret(q, q.errnum)
            ELSE IF parsed = <<>> THEN Ret(q, "OK")
            ELSE errnum(PrintLoop(q, parsed, <<>>))
        form(q, parsed) == IF q.thrown # "" THEN q ELSE tail(q, parsed)
        hdr(q, parsed) ==
            form(IF q.thrown = "" /\ q.formlen = 0 THEN setform(q) ELSE q, parsed)
        clear(q) == [q EXCEPT !.parsebuf = <<>>, !.flags = @ \ {"RESUMED"}]
        first(st) == IF NothingSeen(st)
                     THEN Ret(clear(st.p), "OK")
                     ELSE hdr(wrhdr(clear(st.p)), st.p.parsebuf)
        parse(q) == first(parsestr(q, string, "RESUMED" \notin q.flags))
        init(q) == IF q.thrown # "" THEN q
                   ELSE parse([q EXCEPT !.flags = @ \cup {"INIT"},
                                        !.parsebuf = <<>>])
        active(q) == init(IF "INIT" \notin q.flags THEN pdfinit(q) ELSE q)
        geo(q) == IF InconGeo(q) THEN Abort(q, "INCON_GEO")
                  ELSE active([q EXCEPT !.flags = @ \cup {"ACTIVE"}])
        more(st) == tail([st.p EXCEPT !.parsebuf = <<>>], st.p.parsebuf)
    IN  IF "WRITTEN" \notin p.flags
        THEN geo([p EXCEPT !.lpp = (p.len * p.lpi) \div 1000,
                           !.tof = IF p.tof = TOF_UNSET
                                   THEN (p.top * p.lpi) \div 1000 ELSE @])
        ELSE more(parsestr(p, string, FALSE))

\* pdf_print: r = setjmp (ps->env); if (r) { ps->errnum = r; return r; }
pdf_print(p, string) ==
    LET caught(q) ==
            IF q.thrown # ""
            THEN [q EXCEPT !.errnum = q.thrown, !.ret = q.thrown, !.thrown = ""]
            ELSE q
    IN  caught(PrintBody(p, string))

----------------------------------------------------------------------------
(* pdfclose, pdf_checkpoint, pdf_close *)

\* The document ID: SHA-1 of the input and of the info object, a black box
DocId == "sha1"

\* The /Page leaf objects, one per page of the session, k is the number
\* written so far
RECURSIVE WriteLeaves(_, _, _)
WriteLeaves(p, k, plist) ==
    LET leaf(q) == fwrite(q, [t |-> "page", obj |-> q.obj,
                              parent |-> plist, font |-> plist + 1,
                              xobject |-> p.formobj,
                              contents |-> p.pbase + k])
    IN  IF k >= p.page THEN p
        ELSE WriteLeaves(leaf(addobj(p)), k + 1, plist)

\* /Count of the anchor: pdf->page + pdf->prevpc
AnchorCount_SessionOnly(p) == p.page
AnchorCount(p) == p.page + p.prevpc

\* if (pdf->anchorpp): the /Parent slot of the previous anchor takes the
\* number of the new anchor
PatchParent_Skip(w, aobj) == w
PatchParent(w, aobj) ==
    IF w.anchorpp # 0
    THEN IF w.full THEN [w EXCEPT !.ferror = TRUE, !.fpos = w.anchorpp]
         ELSE [w EXCEPT !.fdata[w.anchorpp + 1].parent = aobj,
                        !.fpos = w.anchorpp]
    ELSE w

\* anchor = plist + 1 + 1 + pdf->page: the number the anchor will take,
\* after the font directory and the leaves
AnchorAhead_NoFonts(plist, page) == plist + 1 + page
AnchorAhead(plist, page) == plist + 1 + 1 + page

\* pdfclose from "Page list for this session" to the patch of the previous
\* anchor: the metadata of the session
WriteMeta(p) ==
    LET truncate(w, aobj) == PatchParent(ftruncate(w, w.fpos), aobj)
        trailer(w, xref, aobj, cat, iobj) ==
            truncate(fwrite([w EXCEPT !.sha1 = SHA1Result(@)],
                            [t |-> "trailer", root |-> cat,
                             size |-> w.obj + 1, info |-> iobj,
                             id |-> <<IF p.oid # "" THEN p.oid ELSE DocId,
                                      DocId>>,
                             startxref |-> xref]), aobj)
        xref(w, aobj, cat, iobj) ==
            trailer(fwrite(w, [t |-> "xref", first |-> 0, n |-> 1 + w.obj,
                               offs |-> SubSeq(w.xref, 1, w.obj)]),
                    w.fpos, aobj, cat, iobj)
        info(a, aobj, cat) ==
            xref(fwrite([a EXCEPT !.sha1 = SHA1Input(@, HashedInfo)],
                        [t |-> "info", obj |-> a.obj, title |-> p.title,
                         producer |-> Producer]), aobj, cat, a.obj)
        catalog(a, aobj) ==
            info(addobj(fwrite(a, [t |-> "catalog", obj |-> a.obj,
                                   pages |-> aobj])), aobj, a.obj)
        anchor(a, plist) ==
            catalog(addobj(fwrite(a,
                        [t |-> "pages", obj |-> a.obj,
                         kids |-> (IF p.aobj # 0 THEN <<p.aobj>> ELSE <<>>)
                                  \o <<plist>>,
                         count |-> AnchorCount(p), parent |-> 0])), a.obj)
        leaves(w, plist) == anchor(addobj(WriteLeaves(w, 0, plist)), plist)
        fonts(a, plist) ==
            leaves(fwrite(a, [t |-> "fonts", obj |-> plist + 1,
                              F1 |-> p.font, F2 |-> p.nfont, F3 |-> p.nbold]),
                   plist)
        pages(a) ==
            fonts(addobj(fwrite(a, [t |-> "pages", obj |-> a.obj,
                                    kids |-> [i \in 1..p.page |-> a.obj + 1 + i],
                                    count |-> p.page,
                                    parent |-> AnchorAhead(a.obj, p.page)])),
                  a.obj)
    IN  pages(addobj(p))

\* pdfclose (pdf, checkpoint).  ret is the value returned.  Without
\* checkpoint the file is closed and the context freed on every path.
pdfclose(p, checkpoint) ==
    LET caught(q) == [q EXCEPT !.ret = q.thrown, !.thrown = ""]
        \* if (ferror (pdf->pdf)) r = E(IO_ERROR)
        code(w) == Ret(w, IF w.ferror THEN "IO_ERROR" ELSE "OK")
        meta(q) == IF q.thrown # "" THEN caught(q)
                   ELSE code(WriteMeta(q))
        last(q) == IF q.thrown # "" THEN caught(q)
                   ELSE IF "WRITTEN" \notin q.flags THEN Ret(q, "OK")
                   ELSE meta(IF q.line # 0 THEN wrpage(q) ELSE q)
        form(h) == IF h.thrown = "" /\ h.formlen = 0 THEN setform(h) ELSE h
    IN  last(IF p.line # 0 /\ "WRITTEN" \notin p.flags /\ "INIT" \in p.flags
             THEN form(wrhdr(p)) ELSE p)

\* The state of the hash after a checkpoint of p that left q: the copy
\* saved before the file was completed
SavedHash_Lost(p, q) == q.sha1
SavedHash(p, q) == p.sha1

\* pdf_checkpoint
pdf_checkpoint(p) ==
    LET resume(q) == [q EXCEPT !.fpos = q.checkpp,
                               !.obj = p.obj,
                               !.line = p.line,
                               !.sha1 = SavedHash(p, q),
                               !.flags = (@ \ {"WRITTEN"}) \cup {"RESUMED"},
                               !.errnum = IF q.ret # "OK" THEN q.ret ELSE @]
    IN  IF "WRITTEN" \in p.flags
        THEN resume(pdfclose([p EXCEPT !.line = 0, !.checkpp = p.fpos], TRUE))
        ELSE Ret(p, "OK")

\* pdf_close
pdf_close(p) == pdfclose(p, FALSE)

\* pdf_open (filename) on a file that holds fdata
pdf_open(fdata) == [defaults EXCEPT !.fdata = fdata]

----------------------------------------------------------------------------
(* What a PDF reader finds in the file *)

\* The file ends with a trailer whose startxref leads to an xref table
HasTrailer(fdata) ==
    /\ fdata # <<>>
    /\ fdata[Len(fdata)].t = "trailer"
    /\ fdata[Len(fdata)].startxref + 1 \in 1..Len(fdata)
    /\ fdata[fdata[Len(fdata)].startxref + 1].t = "xref"

\* The object obj as the xref table offs locates it; a block of type
\* "none" when the table leads nowhere
Deref(fdata, offs, obj) ==
    IF obj \in 1..Len(offs) /\ offs[obj] + 1 \in 1..Len(fdata)
    THEN fdata[offs[obj] + 1] ELSE [t |-> "none"]

\* The text of the pages below the objects objs of the page tree, in order
RECURSIVE PageTexts(_, _, _)
PageTexts(fdata, offs, objs) ==
    IF objs = <<>> THEN <<>>
    ELSE LET blk  == Deref(fdata, offs, Head(objs))
             here == IF blk.t = "pages" THEN PageTexts(fdata, offs, blk.kids)
                     ELSE IF blk.t = "page"
                     THEN LET stm == Deref(fdata, offs, blk.contents)
                          IN  IF stm.t = "stream" THEN <<stm.text>> ELSE <<"?">>
                     ELSE <<"?">>
         IN  here \o PageTexts(fdata, offs, Tail(objs))

\* The root /Pages object of the file
RootPages(fdata) ==
    LET tr   == fdata[Len(fdata)]
        offs == fdata[tr.startxref + 1].offs
        cat  == Deref(fdata, offs, tr.root)
    IN  IF cat.t = "catalog" THEN Deref(fdata, offs, cat.pages)
        ELSE [t |-> "none"]

\* The pages of the document: for each page the text of its lines
FilePages(fdata) ==
    IF ~HasTrailer(fdata) THEN <<>>
    ELSE LET tr   == fdata[Len(fdata)]
             offs == fdata[tr.startxref + 1].offs
             cat  == Deref(fdata, offs, tr.root)
         IN  IF cat.t = "catalog" THEN PageTexts(fdata, offs, <<cat.pages>>)
             ELSE <<"?">>

\* The /Count of the root of the page tree; 0 for a file that holds no PDF
TotalPages(fdata) ==
    IF HasTrailer(fdata) /\ RootPages(fdata).t = "pages"
    THEN RootPages(fdata).count ELSE 0

\* The root of the page tree as the catalog names it: its object number,
\* its place in the file and the object itself
AnchorOf(fdata) ==
    IF HasTrailer(fdata) /\ RootPages(fdata).t = "pages"
    THEN LET tr   == fdata[Len(fdata)]
             offs == fdata[tr.startxref + 1].offs
             obj  == Deref(fdata, offs, tr.root).pages
         IN  [obj |-> obj, offs |-> offs[obj], blk |-> RootPages(fdata)]
    ELSE [obj |-> 0, offs |-> 0, blk |-> [t |-> "none"]]

\* The /Size of the trailer; 0 for a file that holds no PDF
TrailerSize(fdata) ==
    IF HasTrailer(fdata) THEN fdata[Len(fdata)].size ELSE 0

----------------------------------------------------------------------------
(* The specifications.  SpecCfg explores the configuration calls on a new *)
(* file; Spec explores sessions of print, checkpoint and close on a file  *)
(* that later sessions append to.                                         *)

\* aux: the last call (op, key, value, exists, str) and the context before
\* it (pre); the bytes printed in this session (raw); the calls made so
\* far; whether a checkpoint of this session found data written (ckpt),
\* whether the file is as the last such checkpoint left it (complete),
\* whether a print of this session changed the file (wrote); the number
\* of plain characters printed in all sessions (nx); the /Count of the
\* files of pdf and of shadow when the session was opened (base, sbase);
\* the pages emitted by the sessions closed so far (total); the /Size of
\* the trailer of the file when the session was opened (size) and the
\* root of its page tree (anchor); the file as it was when the session
\* was opened (file).
AuxInit(p, s) ==
    [ op |-> "open", key |-> "", value |-> 0, exists |-> FALSE, str |-> <<>>,
      pre |-> p, raw |-> <<>>,
      nsets |-> 0, nprints |-> 0, nchecks |-> 0, nsessions |-> 1,
      ckpt |-> FALSE, complete |-> FALSE, wrote |-> FALSE, nx |-> 0,
      base |-> TotalPages(p.fdata), sbase |-> TotalPages(s.fdata),
      total |-> 0, size |-> TrailerSize(p.fdata),
      anchor |-> AnchorOf(p.fdata), file |-> p.fdata ]

\* The numeric arguments of pdf_set drawn by SpecCfg, in 1/1000
NumInputs ==
    { [arg |-> "TOP_MARGIN",    value |-> -1000],
      [arg |-> "TOF_OFFSET",    value |-> 100000],
      [arg |-> "SIDE_MARGIN",   value |-> 349],
      [arg |-> "LNO_WIDTH",     value |-> 50],
      [arg |-> "BAR_HEIGHT",    value |-> 100],
      [arg |-> "CPI",           value |-> 20001],
      [arg |-> "LPI",           value |-> 8000],
      [arg |-> "LPI",           value |-> 7000],
      [arg |-> "PAGE_WIDTH",    value |-> 2999],
      [arg |-> "PAGE_WIDTH",    value |-> 3000],
      [arg |-> "PAGE_LENGTH",   value |-> 1999],
      [arg |-> "COLS",          value |-> 138000],
      [arg |-> "BOGUS",         value |-> 1000] }

\* The string arguments of pdf_set drawn by SpecCfg; exists tells whether
\* the file named can be opened
StrInputs ==
    { [arg |-> "FILE_REQUIRE", value |-> <<"a","p","p","e","n","d">>, exists |-> FALSE],
      [arg |-> "FORM_TYPE",    value |-> <<"P","I","N","K","B","A","R">>, exists |-> FALSE],
      [arg |-> "TEXT_FONT",    value |-> "Helvetica", exists |-> FALSE],
      [arg |-> "TEXT_FONT",    value |-> "Arial", exists |-> FALSE],
      [arg |-> "LNO_FONT",     value |-> "Symbol", exists |-> FALSE],
      [arg |-> "LABEL_FONT",   value |-> "Courier-Bold", exists |-> FALSE],
      [arg |-> "FORM_IMAGE",   value |-> "form.jpg", exists |-> TRUE],
      [arg |-> "TITLE",        value |-> <<"a","(">>, exists |-> FALSE] }

\* The strings printed by SpecCfg
CfgStrings == { <<>>, <<88>> }

\* The configuration of the sessions of Spec: a page of 2.0 inches, that
\* is 12 lines at 6 lpi, and a top-of-form offset of 0 or 1 lines
SessionCfg == [len |-> 2000, tofs |-> {0, 1}]

\* Line feeds that take a new page from its first line to its last
Feed == [i \in 1..11 |-> LF]

\* The strings printed by Spec: nothing, a plain character, the controls
\* the paginator knows, a control the parser discards, and Feed
Chunks == { <<>>, <<88>>, <<FF>>, <<CR>>, <<7>>, Feed }

\* pdf_open on the file, then the pdf_set calls of a session of Spec
Start(fdata, req, tof) ==
    pdf_set(pdf_set(pdf_set(pdf_open(fdata), "FILE_REQUIRE", req, FALSE),
                    "PAGE_LENGTH", SessionCfg.len, FALSE),
            "TOF_OFFSET", tof * 1000, FALSE)

\* The file that a session leaves which prints one character on a new
\* file and closes
Written == pdf_close(pdf_print(pdf_open(<<>>), <<88>>)).fdata

\* The blocks of Written that hold the anchor and the info object
AnchorBlock ==
    CHOOSE i \in 1..Len(Written) :
        Written[i].t = "pages" /\ Written[i].parent = 0
InfoBlock == CHOOSE i \in 1..Len(Written) : Written[i].t = "info"

\* The files that SpecFile opens: no file or an empty one; a file that is
\* no PDF; a file written by the program; that file without its trailer,
\* with a startxref that leads to no xref table, with an anchor that has
\* a /Parent, and with the /Producer of another program
Files ==
    { <<>>,
      << [t |-> "text"], [t |-> "text"] >>,
      Written,
      SubSeq(Written, 1, Len(Written) - 1),
      [Written EXCEPT ![Len(Written)].startxref = 1],
      [Written EXCEPT ![AnchorBlock].parent = 1],
      [Written EXCEPT ![InfoBlock].producer = "Other" ] }

\* The values of PDF_FILE_REQUIRE
Policies ==
    { <<"N","E","W">>, <<"A","P","P","E","N","D">>,
      <<"R","E","P","L","A","C","E">> }

\* The strings printed by SpecFile
FileStrings == { <<>>, <<88>>, <<FF>> }

RECURSIVE CountOf(_, _)
CountOf(c, seq) ==
    IF seq = <<>> THEN 0
    ELSE (IF Head(seq) = c THEN 1 ELSE 0) + CountOf(c, Tail(seq))

InitCfg ==
    /\ pdf = pdf_open(<<>>)
    /\ shadow = pdf_open(<<>>)
    /\ phase = "open"
    /\ aux = AuxInit(pdf_open(<<>>), pdf_open(<<>>))

Init ==
    \E tof \in SessionCfg.tofs :
        /\ pdf = Start(<<>>, <<"N","E","W">>, tof)
        /\ shadow = pdf
        /\ phase = "open"
        /\ aux = AuxInit(pdf, pdf)

\* A session of SpecFile: pdf_open on one of Files, pdf_set of a policy
InitFile ==
    \E file \in Files : \E req \in Policies :
        /\ pdf = pdf_set(pdf_open(file), "FILE_REQUIRE", req, FALSE)
        /\ shadow = pdf
        /\ phase = "open"
        /\ aux = AuxInit(pdf, pdf)

\* pdf_set (pdf, arg, value)
SetCall(arg, value, exists) ==
    /\ phase = "open"
    /\ aux.nsets < MaxSets
    /\ pdf' = pdf_set(pdf, arg, value, exists)
    /\ shadow' = pdf_set(shadow, arg, value, exists)
    /\ aux' = [aux EXCEPT !.op = "set", !.key = arg, !.value = value,
                          !.exists = exists, !.pre = pdf, !.nsets = @ + 1]
    /\ UNCHANGED phase

\* pdf_print (pdf, string, length)
PrintCall(string, max) ==
    /\ phase = "open"
    /\ aux.nprints < max
    /\ pdf' = pdf_print(pdf, string)
    /\ shadow' = pdf_print(shadow, string)
    /\ aux' = [aux EXCEPT !.op = "print", !.str = string, !.pre = pdf,
                          !.raw = @ \o string, !.nprints = @ + 1,
                          !.nx = @ + CountOf(88, string),
                          !.wrote = @ \/ pdf'.fdata # pdf.fdata,
                          !.complete = @ /\ pdf'.fdata = pdf.fdata]
    /\ UNCHANGED phase

\* pdf_checkpoint (pdf); shadow is the session that takes no checkpoint
CheckpointCall ==
    /\ phase = "open"
    /\ aux.nchecks < MaxCheckpoints
    /\ pdf' = pdf_checkpoint(pdf)
    /\ aux' = [aux EXCEPT !.op = "checkpoint", !.pre = pdf,
                          !.nchecks = @ + 1,
                          !.ckpt = @ \/ "WRITTEN" \in pdf.flags,
                          !.complete = IF "WRITTEN" \in pdf.flags
                                       THEN pdf'.ret = "OK" ELSE @]
    /\ UNCHANGED <<phase, shadow>>

\* pdf_close (pdf)
CloseCall ==
    /\ phase = "open"
    /\ pdf' = pdf_close(pdf)
    /\ shadow' = pdf_close(shadow)
    /\ phase' = "closed"
    /\ aux' = [aux EXCEPT !.op = "close", !.pre = pdf, !.complete = FALSE,
                          !.total = @ + pdf'.page]

\* pdf_open of the file that the last session closed, to append to it
OpenCall(tof) ==
    /\ phase = "closed"
    /\ aux.nsessions < MaxSessions
    /\ pdf' = Start(pdf.fdata, <<"A","P","P","E","N","D">>, tof)
    /\ shadow' = Start(shadow.fdata, <<"A","P","P","E","N","D">>, tof)
    /\ phase' = "open"
    /\ aux' = [AuxInit(pdf', shadow') EXCEPT
                  !.nsets = aux.nsets, !.nprints = aux.nprints,
                  !.nchecks = aux.nchecks, !.nsessions = aux.nsessions + 1,
                  !.nx = aux.nx, !.total = aux.total]

NextFile ==
    \/ \E string \in FileStrings : PrintCall(string, MaxFilePrints)
    \/ CheckpointCall
    \/ CloseCall

NextCfg ==
    \/ \E in \in NumInputs : SetCall(in.arg, in.value, FALSE)
    \/ \E in \in StrInputs : SetCall(in.arg, in.value, in.exists)
    \/ \E string \in CfgStrings : PrintCall(string, MaxCfgPrints)
    \/ CheckpointCall
    \/ CloseCall

Next ==
    \/ \E string \in Chunks : PrintCall(string, MaxPrints)
    \/ CheckpointCall
    \/ CloseCall
    \/ \E tof \in SessionCfg.tofs : OpenCall(tof)

----------------------------------------------------------------------------
(* LZW: the content stream of a page, encstm and the encoder *)

LZW_CLRCODE == 256
LZW_EODCODE == 257
LZW_IDCODES == 258
LZW_MINBITS == 9
LZW_MAXBITS == 12
LZW_DSIZE   == 4096
TREE_NULL   == 65535

\* The longest content stream drawn
MaxStream == 256

\* lzw_init: the identity codes; memset zeroes the bit buffer unless the
\* mode is LZW_REINIT.  outbuf stands for the first *outused bytes of the
\* buffer behind the pointers LZWBUF (pdf->lzwbuf, pdf->lzwused).  The
\* entries of dict above assigned are never read before they are added.
lzw_init(lzw, reinit) ==
    [ bitbuf   |-> IF reinit THEN lzw.bitbuf ELSE 0,
      nbits    |-> IF reinit THEN lzw.nbits ELSE 0,
      outbuf   |-> lzw.outbuf,
      dict     |-> [i \in 0..(LZW_IDCODES - 1) |->
                      [prev |-> TREE_NULL, first |-> TREE_NULL,
                       next |-> TREE_NULL, ch |-> i]],
      assigned |-> LZW_IDCODES - 1,
      codesize |-> LZW_MINBITS,
      sent     |-> IF reinit THEN lzw.sent ELSE <<>> ]

\* the while loop of lzw_writebits: the complete bytes leave the buffer
RECURSIVE lzw_drain(_, _)
lzw_drain(lzw, nbits) ==
    IF nbits >= 8
    THEN lzw_drain([lzw EXCEPT !.outbuf =
                       Append(@, (lzw.bitbuf \div 2^(nbits - 8)) % 256)],
                   nbits - 8)
    ELSE [lzw EXCEPT !.nbits = nbits]

\* lzw_writebits.  bitbuf is a uint32_t of which the bits 19 and above are
\* never read back (at most 7 + 12 bits are pending); the low 30 bits are
\* kept.  sent is not a field of t_lzw: it is the history of the calls of
\* lzw_writebits (bits, nbits) made by the step of lzw_encode in progress.
lzw_writebits(lzw, bits, nbits) ==
    lzw_drain([lzw EXCEPT !.bitbuf = (@ % 2^(30 - nbits)) * 2^nbits
                                     + (bits % 2^nbits),
                          !.sent = Append(@, <<bits, nbits>>)],
              nbits + lzw.nbits)

lzw_flushbits(lzw) ==
    IF lzw.nbits # 0 THEN lzw_writebits(lzw, 0, 8 - lzw.nbits) ELSE lzw

\* lzw_add_str: the directory after the call; the code returned is
\* assigned, or TREE_NULL when assigned has reached LZW_DSIZE.  c is
\* stored and compared as a char, the model keeps it as the byte.
\* if (nc >= LZW_DSIZE): the directory is full
DictFull_Late(nc) == nc > LZW_DSIZE
DictFull(nc) == nc >= LZW_DSIZE

GrowsAt_Late(nc, codesize) == nc = 2^codesize /\ codesize # LZW_MAXBITS
GrowsAt(nc, codesize) == nc = 2^codesize - 1 /\ codesize # LZW_MAXBITS

lzw_add_str(lzw, code, c) ==
    LET nc == lzw.assigned + 1
    IN  IF DictFull(nc) THEN [lzw EXCEPT !.assigned = nc]
        ELSE [lzw EXCEPT
                !.assigned = nc,
                !.codesize = IF GrowsAt(nc, lzw.codesize) THEN @ + 1 ELSE @,
                !.dict = [@ EXCEPT ![code].first = nc] @@
                         (nc :> [prev |-> code, first |-> TREE_NULL,
                                 next |-> lzw.dict[code].first, ch |-> c])]

\* lzw_lookup_str: the walk along the children of code
RECURSIVE lzw_walk(_, _, _, _)
lzw_walk(dict, nc, code, c) ==
    IF nc = TREE_NULL THEN TREE_NULL
    ELSE IF code = dict[nc].prev /\ c = dict[nc].ch THEN nc
    ELSE lzw_walk(dict, dict[nc].next, code, c)

lzw_lookup_str(lzw, code, c) == lzw_walk(lzw.dict, lzw.dict[code].first, code, c)

\* lzw_encode up to its loop: the clear code, and the whole of an empty
\* stream
lzw_encode_begin(lzw) == lzw_writebits(lzw, LZW_CLRCODE, lzw.codesize)

lzw_encode_empty(lzw) ==
    lzw_flushbits(lzw_writebits(lzw, LZW_EODCODE, lzw.codesize))

\* one turn of the loop of lzw_encode on the byte c with the prefix code:
\* the record of the directory and the new prefix
lzw_encode_byte(lzw, code, c) ==
    LET nc == lzw_lookup_str(lzw, code, c)
        reset(z) == IF DictFull(z.assigned)
                    THEN lzw_init(lzw_writebits(z, LZW_CLRCODE, z.codesize),
                                  TRUE)
                    ELSE z
    IN  IF nc = TREE_NULL
        THEN [lzw |-> reset(lzw_add_str(lzw_writebits(lzw, code, lzw.codesize),
                                        code, c)),
              code |-> c]
        ELSE [lzw |-> lzw, code |-> nc]

\* lzw_encode after its loop
lzw_encode_end(lzw, code) ==
    lzw_flushbits(lzw_writebits(lzw_writebits(lzw, code, lzw.codesize),
                                LZW_EODCODE, lzw.codesize))

\* encstm returns non-zero when the text is to be written instead
Incompressible_Strict(lzwused, len) == lzwused > len
Incompressible(lzwused, len) == lzwused >= len

\* wrpage from the test of the flag on: the object of the content stream
StreamBlock(p, raw) ==
    IF raw
    THEN [t |-> "stream", obj |-> p.obj, length |-> p.pbused, dl |-> 0,
          filter |-> "", data |-> p.pagebuf]
    ELSE [t |-> "stream", obj |-> p.obj, length |-> Len(p.lzw.outbuf),
          dl |-> p.pbused, filter |-> "LZWDecode", data |-> p.lzw.outbuf]

----------------------------------------------------------------------------
(* The LZW decoder of the PDF reference (LZWDecode), EarlyChange ec *)

\* the code of n bits at bit pos of buf, most significant bit first
RefCode(buf, pos, n) ==
    LET byte(k) == IF pos \div 8 + k <= Len(buf) THEN buf[pos \div 8 + k] ELSE 0
    IN  ((byte(1) * 65536 + byte(2) * 256 + byte(3))
            \div 2^(24 - (pos % 8) - n)) % 2^n

\* the length of the codes when next is the first code not in the table
RefWidth(next) ==
    IF next >= 2048 THEN 12 ELSE IF next >= 1024 THEN 11
    ELSE IF next >= 512 THEN 10 ELSE 9

RefDecoder ==
    [ pos |-> 0, width |-> 9, table |-> <<>>, prev |-> <<>>, out |-> <<>>,
      done |-> FALSE, err |-> FALSE ]

\* the string of a code: a byte, an entry of the table, or the previous
\* string followed by its first byte for the code about to be defined
RefString(d, code) ==
    IF code < 256 THEN <<code>>
    ELSE IF code < 258 + Len(d.table) THEN d.table[code - 257]
    ELSE Append(d.prev, d.prev[1])

RefEntry(d, str) ==
    IF d.prev # <<>> /\ 258 + Len(d.table) < 4096
    THEN Append(d.table, Append(d.prev, str[1]))
    ELSE d.table

\* one code read by the decoder
RefStep(d, buf, ec) ==
    LET code == RefCode(buf, d.pos, d.width)
        put(str, table) ==
            [d EXCEPT !.pos = @ + d.width, !.out = @ \o str,
                      !.table = table, !.prev = str,
                      !.width = RefWidth(258 + Len(table) + ec)]
    IN  IF d.done THEN d
        ELSE IF d.pos + d.width > 8 * Len(buf)
             THEN [d EXCEPT !.done = TRUE, !.err = TRUE]
        ELSE IF code = 256
             THEN [d EXCEPT !.pos = @ + d.width, !.table = <<>>,
                            !.prev = <<>>, !.width = 9]
        ELSE IF code = 257 THEN [d EXCEPT !.pos = @ + d.width, !.done = TRUE]
        ELSE IF code >= 258 + Len(d.table) + (IF d.prev # <<>> THEN 1 ELSE 0)
             THEN [d EXCEPT !.done = TRUE, !.err = TRUE]
        ELSE put(RefString(d, code), RefEntry(d, RefString(d, code)))

----------------------------------------------------------------------------
(* The specification of the content stream of one page *)

Ramp(n) == [i \in 1..n |-> (i - 1) % 256]

Streams ==
    { <<>>, <<65>>, [i \in 1..6 |-> 65], [i \in 1..8 |-> 65],
      Ramp(MaxStream - 2), Ramp(MaxStream) }

\* aux.was before the first turn of the loop of lzw_encode
NoTurn == [codesize |-> 0, assigned |-> 0, code |-> 0, dict |-> <<>>]

\* aux.was: the code size, the last code assigned, the prefix and the
\* directory before a turn of the loop
TurnFrom(lzw, code) ==
    [codesize |-> lzw.codesize, assigned |-> lzw.assigned, code |-> code,
     dict |-> lzw.dict]

\* wrpage has rendered pagebuf for the first page of a new file
InitLzw ==
    /\ \E B \in Streams, nolzw \in BOOLEAN :
          pdf = [ pagebuf |-> B, pbused |-> Len(B),
                  lzw |-> [outbuf |-> <<>>], code |-> 0, pos |-> 0 ]
                @@ addobj(wrhdr(pdf_set(pdf_open(<<>>), "NO_LZW",
                                        IF nolzw THEN 1 ELSE 0, FALSE)))
    /\ phase = "page"
    /\ shadow = [ec0 |-> RefDecoder, ec1 |-> RefDecoder]
    /\ aux = [encoded |-> FALSE, was |-> NoTurn]

\* encstm is called: lzw_init and lzw_encode up to the first byte
EncstmCall ==
    /\ phase = "page"
    /\ "UNCOMPRESSED" \notin pdf.flags
    /\ LET lzw == lzw_encode_begin(lzw_init([outbuf |-> <<>>], FALSE))
       IN  IF pdf.pbused = 0
           THEN /\ pdf' = [pdf EXCEPT !.lzw = lzw_encode_empty(lzw)]
                /\ phase' = "encoded"
           ELSE /\ pdf' = [pdf EXCEPT !.lzw = lzw, !.code = pdf.pagebuf[1],
                                      !.pos = 1]
                /\ phase' = "encode"
    /\ aux' = [aux EXCEPT !.encoded = TRUE]
    /\ UNCHANGED shadow

\* while (len--): one byte of the stream
EncodeByte ==
    /\ phase = "encode"
    /\ pdf.pos < pdf.pbused
    /\ LET r == lzw_encode_byte([pdf.lzw EXCEPT !.sent = <<>>], pdf.code,
                                pdf.pagebuf[pdf.pos + 1])
       IN  pdf' = [pdf EXCEPT !.lzw = r.lzw, !.code = r.code, !.pos = @ + 1]
    /\ aux' = [aux EXCEPT !.was = TurnFrom(pdf.lzw, pdf.code)]
    /\ UNCHANGED <<phase, shadow>>

\* the loop is over: the last code and the end of data
EncodeEnd ==
    /\ phase = "encode"
    /\ pdf.pos = pdf.pbused
    /\ pdf' = [pdf EXCEPT !.lzw = lzw_encode_end([pdf.lzw EXCEPT !.sent = <<>>],
                                                  pdf.code)]
    /\ phase' = "encoded"
    /\ aux' = [aux EXCEPT !.was = TurnFrom(pdf.lzw, pdf.code)]
    /\ UNCHANGED shadow

\* wrpage writes the object of the stream, as text or as LZW
StreamWrite ==
    /\ \/ phase = "page" /\ "UNCOMPRESSED" \in pdf.flags
       \/ phase = "encoded"
    /\ pdf' = fwrite(pdf, StreamBlock(pdf,
                 \/ "UNCOMPRESSED" \in pdf.flags
                 \/ Incompressible(Len(pdf.lzw.outbuf), pdf.pbused)))
    /\ phase' = "written"
    /\ UNCHANGED <<shadow, aux>>

\* a reader decodes what lzw_encode has produced, one code at a time
DecodeCode ==
    /\ phase = "written"
    /\ aux.encoded
    /\ ~(shadow.ec0.done /\ shadow.ec1.done)
    /\ shadow' = [ec0 |-> RefStep(shadow.ec0, pdf.lzw.outbuf, 0),
                  ec1 |-> RefStep(shadow.ec1, pdf.lzw.outbuf, 1)]
    /\ UNCHANGED <<pdf, phase, aux>>

NextLzw ==
    \/ EncstmCall
    \/ EncodeByte
    \/ EncodeEnd
    \/ StreamWrite
    \/ DecodeCode

SpecLzw == InitLzw /\ [][NextLzw]_vars

----------------------------------------------------------------------------
(* The specification of the code width: the encoding of long streams *)

\* The length of the long stream: the directory is full at byte 3840
MaxLong == 3842

\* A stream in which every pair of bytes next to each other is new, so
\* that each byte adds a code: byte i steps by 2 * (i \div 256) + 1
Twist(n) ==
    [i \in 1..n |-> ((i - 1) * (2 * ((i - 1) \div 256) + 1)) % 256]

LongStreams == { <<>>, <<65>>, Ramp(MaxStream), Twist(MaxLong) }

\* wrpage has rendered pagebuf for the first page of a new file
InitWidth ==
    /\ \E B \in LongStreams, nolzw \in BOOLEAN :
          pdf = [ pagebuf |-> B, pbused |-> Len(B),
                  lzw |-> [outbuf |-> <<>>], code |-> 0, pos |-> 0 ]
                @@ addobj(wrhdr(pdf_set(pdf_open(<<>>), "NO_LZW",
                                        IF nolzw THEN 1 ELSE 0, FALSE)))
    /\ phase = "page"
    /\ shadow = [ec0 |-> RefDecoder, ec1 |-> RefDecoder]
    /\ aux = [encoded |-> FALSE, was |-> NoTurn]

NextWidth ==
    \/ EncstmCall
    \/ EncodeByte
    \/ EncodeEnd
    \/ StreamWrite

SpecWidth == InitWidth /\ [][NextWidth]_vars

----------------------------------------------------------------------------
(* The specification of the full directory: the long stream encoded and *)
(* decoded, from its start and from the turns before the directory is   *)
(* full                                                                 *)

\* The turns of the loop of lzw_encode for the bytes lo..hi of B, from the
\* directory and prefix z
RECURSIVE EncodeRange(_, _, _, _)
EncodeRange(B, z, lo, hi) ==
    IF lo > hi \/ z.code = TREE_NULL THEN z
    ELSE IF lo = hi
    THEN lzw_encode_byte([z.lzw EXCEPT !.sent = <<>>], z.code, B[lo])
    ELSE EncodeRange(B, EncodeRange(B, z, lo, (lo + hi) \div 2),
                     (lo + hi) \div 2 + 1, hi)

\* lzw_encode of B after the turn for byte k, k >= 1 (byte 1 is the first
\* prefix)
EncodedTo(B, k) ==
    EncodeRange(B, [lzw |-> lzw_encode_begin(lzw_init([outbuf |-> <<>>], FALSE)),
                    code |-> B[1]], 2, k)

\* The byte of the long stream from which SpecFull starts in the loop: the
\* directory is full four turns later
FullStart == LZW_DSIZE - LZW_IDCODES - 2

\* wrpage has rendered pagebuf: a short stream with and without NO_LZW,
\* the long stream, and the long stream with lzw_encode at byte FullStart
InitFull ==
    /\ shadow = [ec0 |-> RefDecoder, ec1 |-> RefDecoder]
    /\ \/ /\ \E B \in {<<65>>, Twist(MaxLong)}, nolzw \in BOOLEAN :
                /\ Len(B) > 1 => ~nolzw
                /\ pdf = [ pagebuf |-> B, pbused |-> Len(B),
                           lzw |-> [outbuf |-> <<>>], code |-> 0, pos |-> 0 ]
                         @@ addobj(wrhdr(pdf_set(pdf_open(<<>>), "NO_LZW",
                                                 IF nolzw THEN 1 ELSE 0, FALSE)))
             /\ phase = "page"
             /\ aux = [encoded |-> FALSE, was |-> NoTurn]
       \/ LET B == Twist(MaxLong)
              turn(z, y) ==
                  /\ pdf = [ pagebuf |-> B, pbused |-> Len(B), lzw |-> y.lzw,
                             code |-> y.code, pos |-> FullStart ]
                           @@ addobj(wrhdr(pdf_set(pdf_open(<<>>), "NO_LZW",
                                                   0, FALSE)))
                  /\ aux = [encoded |-> TRUE, was |-> TurnFrom(z.lzw, z.code)]
              last(z) == turn(z, EncodeRange(B, z, FullStart, FullStart))
          IN  /\ last(EncodedTo(B, FullStart - 1))
              /\ phase = "encode"

\* a reader with EarlyChange 1, the default of the filter, decodes what
\* lzw_encode has produced, one code at a time
DecodeEarly ==
    /\ phase = "written"
    /\ aux.encoded
    /\ ~shadow.ec1.done
    /\ shadow' = [shadow EXCEPT !.ec1 = RefStep(@, pdf.lzw.outbuf, 1)]
    /\ UNCHANGED <<pdf, phase, aux>>

NextFull ==
    \/ EncstmCall
    \/ EncodeByte
    \/ EncodeEnd
    \/ StreamWrite
    \/ DecodeEarly

SpecFull == InitFull /\ [][NextFull]_vars

----------------------------------------------------------------------------
(* The specification of the position on the page: pitch and pdf_where *)

MaxPagePrints == 3

\* ESC [ Pn z with the parameter given by its digits
PitchSeq(digits) == <<27, 91>> \o digits \o <<122>>

\* The strings printed by SpecPage: a plain character, a form feed, a line
\* feed, the line feeds of a whole page, and the pitch sequences without
\* parameter and with the parameters 1, 2 and 3
PageStrings ==
    { <<88>>, <<FF>>, <<LF>>, Feed,
      PitchSeq(<<>>), PitchSeq(<<49>>), PitchSeq(<<50>>), PitchSeq(<<51>>) }

InitPage ==
    \E tof \in SessionCfg.tofs :
        /\ pdf = Start(<<>>, <<"N","E","W">>, tof)
        /\ shadow = pdf
        /\ phase = "open"
        /\ aux = [where |-> [page |-> 0, line |-> 0]] @@ AuxInit(pdf, pdf)

\* pdf_where: the values stored through page and line.  Before the first
\* output lpp is 0 and lpp - 1 wraps: l + 1 is the value modulo 2^32.
pdf_where(p) ==
    LET l == IF p.line = 0 THEN p.tof + 1 ELSE p.line
    IN  IF l > p.lpp
        THEN [page |-> p.page + 1 + 1 + p.prevpc, line |-> l - (p.lpp - 1)]
        ELSE [page |-> p.page + 1 + p.prevpc, line |-> l]

\* pdf_where (pdf, &page, &line)
WhereCall ==
    /\ phase = "open"
    /\ pdf' = Ret(pdf, "OK")
    /\ shadow' = Ret(shadow, "OK")
    /\ aux' = [aux EXCEPT !.op = "where", !.pre = pdf,
                          !.where = pdf_where(pdf)]
    /\ UNCHANGED phase

NextPage ==
    \/ \E string \in PageStrings : PrintCall(string, MaxPagePrints)
    \/ WhereCall
    \/ CloseCall

SpecPage == InitPage /\ [][NextPage]_vars

----------------------------------------------------------------------------
(* The specification of pdf_open: the check of the file name *)

\* The longest extension drawn
MaxExt == 4

islower(c) == \E i \in 1..26 : LowerCase[i] = c

toupper(c) ==
    IF islower(c) THEN UpperCase[CHOOSE i \in 1..26 : LowerCase[i] = c] ELSE c

\* strrchr (s, c): the position of the last c of s, 0 for NULL
strrchr(s, c) ==
    IF \E i \in 1..Len(s) : s[i] = c
    THEN CHOOSE i \in 1..Len(s) : s[i] = c /\ \A j \in (i + 1)..Len(s) : s[j] # c
    ELSE 0

\* the character i of the string s, "" for the terminator
CharAt(s, i) == IF i <= Len(s) THEN s[i] ELSE ""

\* pdf_open returns NULL with errno BAD_FILENAME: the name has a dot and
\* what follows the last dot is not pdf, compared with the letters of pdf
\* as they are when the first character is lower case and with their upper
\* case otherwise
BadFilename(filename) ==
    LET p == strrchr(filename, ".")
        ext == <<"p", "d", "f">>
        islc == islower(CharAt(filename, p + 1))
        differs(k) == IF islc THEN filename[p + k] # CharAt(ext, k)
                      ELSE filename[p + k] # toupper(CharAt(ext, k))
    IN  /\ p # 0
        /\ \/ \E k \in 1..(Len(filename) - p) : differs(k)
           \/ Len(filename) - p < Len(ext)

ExtChars == {"p", "d", "f", "P", "D", "F", "x"}

\* The file names: without a dot, then a.E and a.x.E for the strings E of
\* at most MaxExt of ExtChars
Filenames ==
    {<<"a">>, <<"p", "d", "f">>} \cup
    { stem \o <<".">> \o e :
        stem \in {<<"a">>, <<"a", ".", "x">>},
        e \in UNION {[1..k -> ExtChars] : k \in 0..MaxExt} }

\* The NULL handle that pdf_open returns when it fails
NoContext == [handle |-> NULL]

\* before the call of pdf_open: there is no context
InitOpen ==
    /\ pdf = NoContext
    /\ shadow = NoContext
    /\ phase = "start"
    /\ aux = [filename |-> NULLS, errno |-> "OK"]

\* pdf_open (filename) with a name; the file can be opened and is empty
OpenName(filename) ==
    /\ phase = "start"
    /\ IF BadFilename(filename)
       THEN /\ pdf' = NoContext
            /\ aux' = [filename |-> filename, errno |-> "BAD_FILENAME"]
       ELSE /\ pdf' = pdf_open(<<>>)
            /\ aux' = [filename |-> filename, errno |-> aux.errno]
    /\ phase' = "called"
    /\ UNCHANGED shadow

\* pdf_open (NULL)
OpenNull ==
    /\ phase = "start"
    /\ pdf' = NoContext
    /\ aux' = [filename |-> NULLS, errno |-> "BAD_FILENAME"]
    /\ phase' = "called"
    /\ UNCHANGED shadow

NextOpen ==
    \/ \E filename \in Filenames : OpenName(filename)
    \/ OpenNull

SpecOpen == InitOpen /\ [][NextOpen]_vars

----------------------------------------------------------------------------
(* The specification of a session on a device that starts to refuse writes *)

MaxErrPrints == 3

\* pdf_clearerr
pdf_clearerr(p) == [p EXCEPT !.errnum = "OK"]

\* The strings printed by SpecErr
ErrStrings == { <<>>, <<88>>, <<FF>> }

\* aux: the last call (op) and the context before it (pre), the numbers of
\* calls, whether a print has failed after output had begun and
\* pdf_clearerr has not been called since (failed), and the value of failed
\* before the last call (was)
InitErr ==
    /\ pdf = Start(<<>>, <<"N","E","W">>, 0)
    /\ shadow = pdf
    /\ phase = "open"
    /\ aux = [op |-> "open", pre |-> pdf, nprints |-> 0, nchecks |-> 0,
              failed |-> FALSE, was |-> FALSE]

\* the environment: from now on every write to the file fails
DeviceFull ==
    /\ phase = "open"
    /\ ~pdf.full
    /\ pdf' = [pdf EXCEPT !.full = TRUE]
    /\ aux' = [aux EXCEPT !.op = "full", !.pre = pdf, !.was = aux.failed]
    /\ UNCHANGED <<phase, shadow>>

ErrPrint(string) ==
    /\ phase = "open"
    /\ aux.nprints < MaxErrPrints
    /\ pdf' = pdf_print(pdf, string)
    /\ aux' = [aux EXCEPT !.op = "print", !.pre = pdf, !.nprints = @ + 1,
                          !.was = aux.failed,
                          !.failed = @ \/ (pdf'.ret # "OK"
                                           /\ "WRITTEN" \in pdf.flags)]
    /\ UNCHANGED <<phase, shadow>>

ErrCheckpoint ==
    /\ phase = "open"
    /\ aux.nchecks < MaxCheckpoints
    /\ pdf' = pdf_checkpoint(pdf)
    /\ aux' = [aux EXCEPT !.op = "checkpoint", !.pre = pdf, !.nchecks = @ + 1,
                          !.was = aux.failed]
    /\ UNCHANGED <<phase, shadow>>

ErrClose ==
    /\ phase = "open"
    /\ pdf' = pdf_close(pdf)
    /\ phase' = "closed"
    /\ aux' = [aux EXCEPT !.op = "close", !.pre = pdf, !.was = aux.failed]
    /\ UNCHANGED shadow

ErrClear ==
    /\ phase = "open"
    /\ pdf' = pdf_clearerr(pdf)
    /\ aux' = [aux EXCEPT !.op = "clearerr", !.pre = pdf, !.was = aux.failed,
                          !.failed = FALSE]
    /\ UNCHANGED <<phase, shadow>>

NextErr ==
    \/ DeviceFull
    \/ \E string \in ErrStrings : ErrPrint(string)
    \/ ErrCheckpoint
    \/ ErrClose
    \/ ErrClear

SpecErr == InitErr /\ [][NextErr]_vars

----------------------------------------------------------------------------
(* The specification of a string printed in one call and in two *)

\* The longest string split
MaxSplitLen == 3

\* The bytes of the strings split: a plain character, CR, FF, LF, ESC,
\* '[', 'z' and OSC
SplitBytes == {88, CR, FF, LF, 27, 91, 122, 157}

SplitStrings == UNION {[1..n -> SplitBytes] : n \in 0..MaxSplitLen}

\* pdf prints S in two calls, shadow in one; aux holds S and the length k
\* of the first part
InitSplit ==
    \E S \in SplitStrings : \E tof \in SessionCfg.tofs :
        /\ pdf = Start(<<>>, <<"N","E","W">>, tof)
        /\ shadow = pdf
        /\ phase = "open"
        /\ aux = [S |-> S, k |-> 0]

\* pdf_print of the first k bytes of S
PrintHead(k) ==
    /\ phase = "open"
    /\ pdf' = pdf_print(pdf, SubSeq(aux.S, 1, k))
    /\ phase' = "head"
    /\ aux' = [aux EXCEPT !.k = k]
    /\ UNCHANGED shadow

\* pdf_print of the rest of S, and pdf_print of S on shadow
PrintRest ==
    /\ phase = "head"
    /\ pdf' = pdf_print(pdf, SubSeq(aux.S, aux.k + 1, Len(aux.S)))
    /\ shadow' = pdf_print(shadow, aux.S)
    /\ phase' = "printed"
    /\ UNCHANGED aux

\* pdf_close on both
CloseBoth ==
    /\ phase = "printed"
    /\ pdf' = pdf_close(pdf)
    /\ shadow' = pdf_close(shadow)
    /\ phase' = "closed"
    /\ UNCHANGED aux

NextSplit ==
    \/ \E k \in 0..MaxSplitLen : k <= Len(aux.S) /\ PrintHead(k)
    \/ PrintRest
    \/ CloseBoth

SpecSplit == InitSplit /\ [][NextSplit]_vars

----------------------------------------------------------------------------
(* The specification of the escape parser: a session that prints short  *)
(* chunks, in 7-bit form on pdf and in 8-bit form on shadow             *)

\* The pdf_print calls of a run of SpecEsc
MaxEscLen == 4

\* The bytes that follow ESC in the 7-bit chunks: 'X' (SOS), '[' (CSI),
\* '\' (ST), ']' (OSC)
EscFinals == {88, 91, 92, 93}

\* The chunks that hold no ESC: a plain character, the digit 6, the digits
\* 6553, CSI, OSC, CAN and LF
EscPlain == { <<88>>, <<54>>, <<54, 53, 53, 51>>, <<155>>, <<157>>, <<24>>,
              <<LF>> }

\* The pairs of a chunk and its 8-bit form
EscInputs ==
    { <<c, c>> : c \in EscPlain } \cup
    { << <<27, b>>, <<b + 64>> >> : b \in EscFinals }

\* The decimal number typed since the start of the CSI sequence, by the
\* digits of chunk c after t: -1 when no digit was typed yet, -2 outside a
\* parameter.  Numbers of more than six digits are not told apart.
RECURSIVE Typed(_, _)
Typed(t, c) ==
    IF c = <<>> THEN t
    ELSE IF t = -2 \/ t >= 100000 THEN t
    ELSE IF Head(c) \in 48..57
    THEN Typed((IF t = -1 THEN 0 ELSE t * 10) + (Head(c) - 48), Tail(c))
    ELSE -2

\* aux holds the last chunk in both forms, the contexts before it, the
\* number of calls, and what the sequence of chunks is by ISO 6429:
\* whether a control string (OSC, PM, APC) is open, whether it was open
\* before the chunk, and the number typed as first CSI parameter
InitEsc ==
    /\ pdf = Start(<<>>, <<"N","E","W">>, 0)
    /\ shadow = pdf
    /\ phase = "open"
    /\ aux = [seven |-> <<>>, eight |-> <<>>, pre |-> pdf, spre |-> pdf,
              n |-> 0, instr |-> FALSE, wasinstr |-> FALSE, typed |-> -2]

\* pdf_print of a chunk on pdf, and of its 8-bit form on shadow
EscPrint(seven, eight) ==
    /\ phase = "open"
    /\ aux.n < MaxEscLen
    /\ pdf' = pdf_print(pdf, seven)
    /\ shadow' = pdf_print(shadow, eight)
    /\ aux' = [seven |-> seven, eight |-> eight, pre |-> pdf,
               spre |-> shadow, n |-> aux.n + 1,
               instr |-> IF eight \in {<<157>>, <<158>>, <<159>>} THEN TRUE
                         ELSE IF eight \in {<<24>>, <<26>>, <<156>>} THEN FALSE
                         ELSE aux.instr,
               wasinstr |-> aux.instr,
               typed |-> IF eight = <<155>> THEN -1 ELSE Typed(aux.typed, eight)]
    /\ UNCHANGED phase

NextEsc == \E io \in EscInputs : EscPrint(io[1], io[2])

SpecEsc == InitEsc /\ [][NextEsc]_vars

----------------------------------------------------------------------------
(* The specification of the rendering of a line: one string printed on *)
(* a new file, then the file closed                                      *)

\* The longest string printed by SpecOver
MaxOverLen == 4

\* The bytes of the strings: two plain characters, space, CR and LF
OverBytes == {88, 89, 32, CR, LF}

OverStrings == UNION {[1..n -> OverBytes] : n \in 0..MaxOverLen}

InitOver ==
    /\ pdf = Start(<<>>, <<"N","E","W">>, 0)
    /\ shadow = pdf
    /\ phase = "open"
    /\ aux = [str |-> <<>>, pre |-> pdf]

\* pdf_print of a string
OverPrint(string) ==
    /\ phase = "open"
    /\ pdf' = pdf_print(pdf, string)
    /\ phase' = "printed"
    /\ aux' = [str |-> string, pre |-> pdf]
    /\ UNCHANGED shadow

\* pdf_close
OverClose ==
    /\ phase = "printed"
    /\ pdf' = pdf_close(pdf)
    /\ phase' = "closed"
    /\ aux' = [aux EXCEPT !.pre = pdf]
    /\ UNCHANGED shadow

NextOver ==
    \/ \E string \in OverStrings : OverPrint(string)
    \/ OverClose

SpecOver == InitOver /\ [][NextOver]_vars

----------------------------------------------------------------------------
----------------------------------------------------------------------------
(* The specification of a long run of characters in one call *)

\* The longest run printed
MaxRun == 151

\* A run of n characters, and the run with a line feed in its middle
Run(n) == [i \in 1..n |-> 88]
BrokenRun(n) == [i \in 1..n |-> IF i = n \div 2 + 1 THEN LF ELSE 88]

RunStrings == {Run(n) : n \in 0..MaxRun} \cup {BrokenRun(n) : n \in 1..MaxRun}

\* What a build makes of a store outside lbuf: the memory behind the array
\* takes the value and the call goes on, or the call is killed
Outcomes == {"stored", "killed"}

InitRun ==
    /\ pdf = pdf_open(<<>>)
    /\ shadow = pdf
    /\ phase = "open"
    /\ aux = [op |-> "open", str |-> <<>>, pre |-> pdf]

\* pdf_print (pdf, string, length), once
RunPrint(string) ==
    /\ phase = "open"
    /\ \E outcome \in Outcomes :
          IF pdf_print(pdf, string).overrun /\ outcome = "killed"
          THEN /\ pdf' = [pdf_print(pdf, string) EXCEPT !.ret = "SIGSEGV"]
               /\ phase' = "killed"
          ELSE /\ pdf' = pdf_print(pdf, string)
               /\ phase' = "printed"
    /\ aux' = [op |-> "print", str |-> string, pre |-> pdf]
    /\ UNCHANGED shadow

\* pdf_close (pdf)
RunClose ==
    /\ phase = "printed"
    /\ pdf' = pdf_close(pdf)
    /\ phase' = "closed"
    /\ aux' = [aux EXCEPT !.op = "close", !.pre = pdf]
    /\ UNCHANGED shadow

NextRun ==
    \/ \E string \in RunStrings : RunPrint(string)
    \/ RunClose

SpecRun == InitRun /\ [][NextRun]_vars

----------------------------------------------------------------------------
(* The specification of long escape and control sequences *)

\* The most parameters and intermediates before the bytes printed one by
\* one, and the number of these bytes
MaxPars == 15
MaxInts == 16
MaxParPrints == 3

\* n parameters "1;" and n intermediates (space)
Params(n) == [i \in 1..(2 * n) |-> IF i % 2 = 1 THEN 49 ELSE 59]
Inters(n) == [i \in 1..n |-> 32]

\* What has been printed when SpecPar starts: CSI and parameters, CSI and
\* intermediates, ESC and intermediates
Prefixes ==
    {<<155>> \o Params(n) : n \in 0..MaxPars}
        \cup {<<155>> \o Inters(n) : n \in 1..MaxInts}
        \cup {<<27>> \o Inters(n) : n \in 0..MaxInts}

\* The bytes printed: a digit, ';', an intermediate, a final, ESC, and CSI
ParBytes == {49, 59, 32, 122, 27, 155}

InitPar ==
    \E prefix \in Prefixes :
        /\ pdf = pdf_print(pdf_open(<<>>), prefix)
        /\ shadow = pdf
        /\ phase = "open"
        /\ aux = [op |-> "open", str |-> prefix, pre |-> pdf, nprints |-> 0]

\* pdf_print (pdf, string, 1)
ParPrint(byte) ==
    /\ phase = "open"
    /\ aux.nprints < MaxParPrints
    /\ pdf' = pdf_print(pdf, <<byte>>)
    /\ aux' = [op |-> "print", str |-> <<byte>>, pre |-> pdf,
               nprints |-> aux.nprints + 1]
    /\ UNCHANGED <<phase, shadow>>

NextPar == \E byte \in ParBytes : ParPrint(byte)

SpecPar == InitPar /\ [][NextPar]_vars

SpecCfg == InitCfg /\ [][NextCfg]_vars

SpecFile == InitFile /\ [][NextFile]_vars

Spec == Init /\ [][Next]_vars

----------------------------------------------------------------------------
(* The reference the properties compare the program with *)

\* The bytes of the input of a new session that reach the paginator: the
\* other controls are dropped, then the leading CRs, then one FF
RECURSIVE DropCR(_)
DropCR(seq) ==
    IF seq # <<>> /\ Head(seq) = CR THEN DropCR(Tail(seq)) ELSE seq

Stored(raw) ==
    LET kept == SelectSeq(raw, LAMBDA c : c >= 32 \/ c \in {LF, FF, CR})
        rest == DropCR(kept)
    IN  IF rest # <<>> /\ Head(rest) = FF THEN Tail(rest) ELSE rest

\* The reference paginator: the number of pages of the stored bytes for
\* lpp lines per page and a top-of-form offset tof.  The first data line
\* of a page is tof+1, each FF breaks the page, a byte that arrives when
\* the line has passed lpp+tof breaks the page first; what was begun
\* when the input ends is a page.  With carry, a page break that leaves
\* text on a line beyond lpp behind it begins the next page with that
\* text, at line tof+1.
RECURSIVE RefRun(_, _)
RefRun(st, stored) ==
    LET break == [st EXCEPT !.pages = @ + 1,
                            !.line  = IF st.carry /\ st.ahead
                                      THEN st.tof + 1 ELSE 0,
                            !.ahead = FALSE]
    IN  IF stored = <<>> THEN st.pages + (IF st.line # 0 THEN 1 ELSE 0)
        ELSE IF st.line > st.lpp + st.tof /\ Head(stored) # FF
             THEN RefRun(break, stored)
        ELSE IF st.line = 0
             THEN RefRun([st EXCEPT !.line = st.tof + 1], stored)
        ELSE IF Head(stored) = FF THEN RefRun(break, Tail(stored))
        ELSE IF Head(stored) = LF
             THEN RefRun([st EXCEPT !.line = @ + 1], Tail(stored))
        ELSE RefRun([st EXCEPT !.ahead = @ \/ st.line > st.lpp], Tail(stored))

RefPages(stored, lpp, tof, carry) ==
    RefRun([pages |-> 0, line |-> 0, ahead |-> FALSE,
            lpp |-> lpp, tof |-> tof, carry |-> carry], stored)

\* lpp = floor (len * lpi)
RefLpp(p) == (p.len * p.lpi) \div 1000

\* The number of plain characters X on the pages
RECURSIVE CountOnLines(_)
CountOnLines(lines) ==
    IF lines = <<>> THEN 0
    ELSE CountOf(88, Head(lines)) + CountOnLines(Tail(lines))

RECURSIVE CountOnPages(_)
CountOnPages(pages) ==
    IF pages = <<>> THEN 0
    ELSE CountOnLines(Head(pages)) + CountOnPages(Tail(pages))

\* The consistency invariants of the geometry, in exact arithmetic: TRUE
\* when one of them fails for the configuration of p
GeoFails(p) ==
    LET pw  == p.wid - 2 * (p.margin + p.lno)
        tof == IF p.tof = TOF_UNSET THEN (p.top * p.lpi) \div 1000 ELSE p.tof
    IN  \/ pw < 3000
        \/ pw * p.cpi < p.cols * 1000000
        \/ p.len * p.lpi < 4000
        \/ tof * 1000 > p.len * p.lpi
        \/ (p.formtype # PDF_JPEG /\ p.barh * p.lpi < 1000)

NumericKeys ==
    { "NO_LZW", "TOP_MARGIN", "TOF_OFFSET", "BOTTOM_MARGIN", "SIDE_MARGIN",
      "LNO_WIDTH", "BAR_HEIGHT", "CPI", "LPI", "PAGE_WIDTH", "PAGE_LENGTH",
      "COLS" }

FontKeys == { "TEXT_FONT", "LNO_FONT", "LABEL_FONT" }

StringKeys == FontKeys \cup { "FILE_REQUIRE", "FORM_TYPE", "FORM_IMAGE", "TITLE" }

PolicyNames == { <<"N","E","W">>, <<"A","P","P","E","N","D">>,
                 <<"R","E","P","L","A","C","E">> }

\* The value is valid for the key
ValidSet(key, value, exists) ==
    CASE key = "CPI"         -> value >= 1000 /\ value <= 20000
      [] key = "LPI"         -> value \in {6000, 8000}
      [] key = "PAGE_WIDTH"  -> value >= 3000
      [] key = "PAGE_LENGTH" -> value >= 2000
      [] key = "SIDE_MARGIN" -> value >= 350
      [] key = "LNO_WIDTH"   -> value = 0 \/ value >= 100
      [] key = "BAR_HEIGHT"  -> value > 0
      [] key = "COLS"        -> value >= 1000
      [] key \in {"NO_LZW", "TOP_MARGIN", "BOTTOM_MARGIN", "TOF_OFFSET"}
                             -> value >= 0
      [] key \in FontKeys    -> value \in validFonts
      [] key = "FILE_REQUIRE" ->
             \E n \in PolicyNames : xstrcasecmp0(value, n)
      [] key = "FORM_TYPE"   ->
             \E i \in 1..Len(FormNames) : xstrcasecmp0(value, FormNames[i])
      [] key = "FORM_IMAGE"  -> value # NULL /\ exists
      [] key = "TITLE"       -> value # NULLS
      [] OTHER               -> FALSE

\* The code that a value failing validation is refused with; "OK" when
\* the list of refusals does not name the case
Refusal(key, value) ==
    IF key \in StringKeys
    THEN IF key \in FontKeys /\ value # NULL /\ value \notin validFonts
         THEN "UNKNOWN_FONT"
         ELSE IF key = "FORM_TYPE" /\ value # NULLS
                 /\ ~\E i \in 1..Len(FormNames) : xstrcasecmp0(value, FormNames[i])
         THEN "UNKNOWN_FORM"
         ELSE "OK"
    ELSE IF value < 0 THEN "NEGVAL"
    ELSE IF key \notin NumericKeys THEN "BAD_SET"
    ELSE IF \/ (key = "CPI" /\ (value < 1000 \/ value > 20000))
            \/ (key = "LPI" /\ value \notin {6000, 8000})
            \/ (key = "PAGE_WIDTH" /\ value < 3000)
            \/ (key = "PAGE_LENGTH" /\ value < 2000)
            \/ (key = "SIDE_MARGIN" /\ value < 350)
            \/ (key = "LNO_WIDTH" /\ value > 0 /\ value < 100)
    THEN "INVAL"
    ELSE "OK"

\* blk is the object number obj
ObjIs(blk, obj) == "obj" \in DOMAIN blk /\ blk.obj = obj

----------------------------------------------------------------------------
(* The properties *)

\* C1: checkpoint transparency.  When the session is closed, the pages of
\* the file (their number and the text of each line) are those of the
\* session that printed the same strings and took no checkpoint.
C1_CheckpointTransparency ==
    phase = "closed" => FilePages(pdf.fdata) = FilePages(shadow.fdata)

\* C2: no data is lost at close.  When pdf_close has returned OK, no line
\* of the line buffer holds text, and the pages of the file hold every
\* plain character that was printed.
C2_NoDataLostAtClose ==
    phase = "closed" /\ pdf.ret = "OK" =>
        /\ \A l \in 1..Len(pdf.lines) : pdf.lines[l] = <<>>
        /\ CountOnPages(FilePages(pdf.fdata)) = aux.nx

\* The bytes printed in the session are plain characters, LF and FF
PlainStream ==
    \A i \in 1..Len(aux.raw) : aux.raw[i] \in {LF, FF} \/ aux.raw[i] >= 32

\* C3 with the three rules only: for a stream of plain characters, LF and
\* FF, the number of pages that a session adds to the file is the number
\* the reference paginator gives for the bytes stored (first data line
\* tof+1, a break on each FF, a break when the line has passed lpp+tof).
C3_AsStated ==
    phase = "closed" /\ PlainStream =>
        TotalPages(shadow.fdata) =
            aux.sbase + RefPages(Stored(aux.raw), RefLpp(shadow), shadow.tof, FALSE)

\* C3 with the carry of wrpage: round-trip pagination.  The number of
\* pages that a session adds to the file is the number the reference
\* paginator gives when, in addition to the three rules, a page break
\* that leaves text on a line beyond lpp starts the next page at line
\* tof+1 with that text.
C3_RoundTripPagination ==
    phase = "closed" =>
        TotalPages(shadow.fdata) =
            aux.sbase + RefPages(Stored(aux.raw), RefLpp(shadow), shadow.tof, TRUE)

\* A session is closed in which text on a line beyond lpp was carried to
\* a page of its own
C3_Witness ==
    /\ phase = "closed" /\ PlainStream
    /\ RefPages(Stored(aux.raw), RefLpp(shadow), shadow.tof, TRUE)
         # RefPages(Stored(aux.raw), RefLpp(shadow), shadow.tof, FALSE)
    /\ TotalPages(shadow.fdata) >= aux.sbase + 2

\* C4: initial-FF discard.  A print of one FF emits no page when only CR
\* bytes (and discarded controls) came before it in the session: it is
\* the single FF that is stripped.  It emits a page in every other case:
\* when an FF was stripped before it, and when a byte was stored before.
C4_InitialFFDiscard ==
    aux.op = "print" /\ aux.str = <<FF>> =>
        LET before == SubSeq(aux.raw, 1, Len(aux.raw) - 1)
            first  == Stored(before) = <<>> /\ CountOf(FF, before) = 0
        IN  pdf.page = aux.pre.page + (IF first THEN 0 ELSE 1)

\* C5: after a checkpoint that found data written, no print performs the
\* initial discard: a print of one FF emits a page, whatever prints came
\* between the checkpoint and it.
C5_NoDiscardAfterCheckpoint ==
    aux.op = "print" /\ aux.ckpt /\ aux.str = <<FF>> =>
        pdf.page = aux.pre.page + 1

\* C6: from a checkpoint that found data written and returned OK until
\* the next print that changes the file, the file is a complete PDF: it
\* ends with the xref table and the trailer; the table lists the objects
\* 1..N allocated, each where the table says; /Size is N+1; /Root and
\* /Info are a catalog and an info object written by this checkpoint;
\* the /Count of the root of the page tree is the number of pages of the
\* session plus the pages of the sessions before, and the tree holds
\* that many pages.
C6_CheckpointComplete ==
    aux.complete =>
        LET fdata == pdf.fdata
            N     == pdf.obj + pdf.page + 5
        IN  /\ HasTrailer(fdata)
            /\ LET tr == fdata[Len(fdata)]
                   xr == fdata[tr.startxref + 1]
               IN  /\ tr.startxref + 1 = Len(fdata) - 1
                   /\ xr.first = 0 /\ xr.n = N + 1 /\ Len(xr.offs) = N
                   /\ \A i \in 1..N : ObjIs(Deref(fdata, xr.offs, i), i)
                   /\ tr.size = N + 1
                   /\ tr.root \in 1..N /\ tr.info \in 1..N
                   /\ xr.offs[tr.root] >= pdf.checkpp
                   /\ xr.offs[tr.info] >= pdf.checkpp
                   /\ Deref(fdata, xr.offs, tr.root).t = "catalog"
                   /\ Deref(fdata, xr.offs, tr.info).t = "info"
                   /\ RootPages(fdata).t = "pages"
                   /\ RootPages(fdata).count = pdf.page + pdf.prevpc
                   /\ Len(FilePages(fdata)) = pdf.page + pdf.prevpc

\* The file is as a checkpoint left it, in a session that appends to a
\* file with pages and has emitted a page of its own
C6_Witness ==
    aux.complete /\ pdf.prevpc > 0 /\ pdf.page > 0

\* C7: geometry validation.  A first print with a configuration that
\* fails one of the consistency invariants returns INCON_GEO and leaves
\* the file as it was.
C7_GeometryValidation ==
    aux.op = "print" /\ aux.nprints = 1 /\ GeoFails(aux.pre) =>
        pdf.ret = "INCON_GEO" /\ pdf.fdata = aux.pre.fdata

\* C8: configuration freeze.  After a print has changed the file, every
\* set returns ACTIVE and leaves the configuration as it was; before
\* the first print, a set of a valid value returns OK.
C8_ConfigurationFreeze ==
    aux.op = "set" =>
        /\ aux.wrote =>
               pdf.ret = "ACTIVE" /\ ConfigOf(pdf) = ConfigOf(aux.pre)
        /\ aux.nprints = 0 /\ ValidSet(aux.key, aux.value, aux.exists) =>
               pdf.ret = "OK"

\* A set is refused after a print that wrote and a checkpoint
C8_Witness ==
    /\ aux.op = "set" /\ aux.wrote /\ aux.ckpt
    /\ ValidSet(aux.key, aux.value, aux.exists)
    /\ pdf.ret = "ACTIVE"

\* C9: a set that fails leaves every configuration key as it was, and a
\* value that fails validation is refused with the code of its case.
C9_FailedSetKeepsConfig ==
    aux.op = "set" =>
        /\ pdf.ret # "OK" => ConfigOf(pdf) = ConfigOf(aux.pre)
        /\ ~Locked(aux.pre) /\ Refusal(aux.key, aux.value) # "OK" =>
               pdf.ret = Refusal(aux.key, aux.value)

\* A value out of range is refused for a configuration that an earlier
\* set has changed
C9_Witness ==
    /\ aux.op = "set" /\ aux.key = "CPI" /\ pdf.ret = "INVAL"
    /\ aux.pre.lpi = 8

\* C10: each font setter sets its own field and no other.  After a set
\* of a font key that returned OK, the field of the key holds the name
\* and the other two font fields are as before.
C10_FontSetters ==
    aux.op = "set" /\ aux.key \in FontKeys /\ pdf.ret = "OK" =>
        /\ pdf.font  = IF aux.key = "TEXT_FONT"  THEN aux.value ELSE aux.pre.font
        /\ pdf.nfont = IF aux.key = "LNO_FONT"   THEN aux.value ELSE aux.pre.nfont
        /\ pdf.nbold = IF aux.key = "LABEL_FONT" THEN aux.value ELSE aux.pre.nbold

\* C11: append page count.  When a session is closed, the /Count of the
\* root /Pages object that the catalog of the trailer names is the number
\* of pages emitted by all the sessions on the file, and the page tree
\* holds that many pages; the session has raised the /Count of the file
\* it opened by the number of pages it emitted.
C11_AppendPageCount ==
    phase = "closed" =>
        /\ TotalPages(pdf.fdata) = aux.total
        /\ Len(FilePages(pdf.fdata)) = aux.total
        /\ TotalPages(pdf.fdata) = aux.base + pdf.page

\* An append session that emitted pages is closed on a file with pages
C11_Witness ==
    /\ phase = "closed" /\ aux.nsessions = 2
    /\ aux.base > 0 /\ pdf.page > 0
    /\ TotalPages(pdf.fdata) = aux.base + pdf.page

\* C12 with "plus k": when an append session on a file that holds a PDF is
\* closed after emitting k pages, the /Size of the trailer is the /Size
\* of the trailer of the file it opened plus k.
C12_AsStated ==
    phase = "closed" /\ aux.nsessions > 1 /\ aux.size > 0 =>
        TrailerSize(pdf.fdata) = aux.size + pdf.page

\* C12, append trailer size: when an append session on a file that holds
\* a PDF is closed after emitting k pages (no image form), the /Size of
\* the trailer is the /Size of the file it opened plus 2k+3 when the
\* session wrote to the file (a content stream and a leaf per page, the
\* page list, the font dictionary and the anchor; the catalog and the
\* info object take the numbers of the old ones), and the same /Size when
\* the session wrote nothing.
C12_AppendTrailerSize ==
    phase = "closed" /\ aux.nsessions > 1 /\ aux.size > 0 =>
        TrailerSize(pdf.fdata) =
            aux.size + (IF aux.wrote THEN 2 * pdf.page + 3 ELSE 0)

\* An append session that emitted pages is closed on a file that held a PDF
C12_Witness ==
    /\ phase = "closed" /\ aux.nsessions > 1 /\ aux.size > 0
    /\ aux.wrote /\ pdf.page > 0
    /\ TrailerSize(pdf.fdata) = aux.size + 2 * pdf.page + 3

\* C13: append re-parenting.  In an append session that has written to
\* a file that held a PDF, when the session is closed and while the file
\* is as a checkpoint left it: the anchor of the file opened has its
\* object number and its place in the file, its /Kids and /Count are as
\* they were, and its /Parent is the number of the new anchor, which is
\* the /Pages of the catalog of the trailer, is another object, and lists
\* the old anchor first among its /Kids.
C13_AppendReparenting ==
    (phase = "closed" \/ aux.complete)
        /\ aux.nsessions > 1 /\ aux.size > 0 /\ aux.wrote =>
        LET new == AnchorOf(pdf.fdata)
            old == pdf.fdata[aux.anchor.offs + 1]
            xr  == pdf.fdata[pdf.fdata[Len(pdf.fdata)].startxref + 1]
        IN  /\ new.blk.t = "pages"
            /\ xr.offs[aux.anchor.obj] = aux.anchor.offs
            /\ old.t = "pages" /\ old.obj = aux.anchor.obj
            /\ old.kids = aux.anchor.blk.kids
            /\ old.count = aux.anchor.blk.count
            /\ old.parent = new.obj
            /\ new.obj # aux.anchor.obj
            /\ new.blk.obj = new.obj
            /\ Head(new.blk.kids) = aux.anchor.obj

\* The file of an append session that emitted a page is as a checkpoint
\* left it
C13_Witness ==
    /\ aux.nsessions > 1 /\ aux.size > 0 /\ aux.wrote /\ pdf.page > 0
    /\ aux.anchor.blk.count > 0
    /\ aux.complete
    /\ pdf.fdata[aux.anchor.offs + 1].parent = AnchorOf(pdf.fdata).obj

\* What the file policy makes of a file at the first print: the code of
\* the rejection, or "OK"
Rejection(file, frequire) ==
    IF file = <<>> THEN "OK"
    ELSE IF frequire = PDF_FILE_NEW THEN "NOT_EMPTY"
    ELSE IF frequire = PDF_FILE_APPEND
    THEN IF file[1].t # "header" THEN "NOT_PDF"
         ELSE IF ~(HasTrailer(file) /\ RootPages(file).t = "pages")
              THEN "NO_APPEND"
         ELSE IF RootPages(file).parent # 0 THEN "NO_APPEND"
         ELSE IF Deref(file, file[file[Len(file)].startxref + 1].offs,
                       file[Len(file)].info).producer # Producer
              THEN "NOT_PRODUCED"
         ELSE "OK"
    ELSE "OK"

\* C14: file-policy rejection leaves the file untouched.  When the policy
\* rejects the file of the session (NOT_EMPTY, NOT_PDF, NO_APPEND,
\* NOT_PRODUCED), the first print returns the code of the rejection, and
\* from that print on, through later prints, checkpoints and the close,
\* the file is the file that was opened.
C14_RejectionKeepsFile ==
    Rejection(aux.file, pdf.frequire) # "OK" /\ aux.nprints >= 1 =>
        /\ pdf.fdata = aux.file
        /\ aux.op = "print" /\ aux.nprints = 1 =>
               pdf.ret = Rejection(aux.file, pdf.frequire)

\* A session is closed after two prints on a file of another producer
C14_Witness ==
    /\ phase = "closed" /\ aux.nprints = 2
    /\ Rejection(aux.file, pdf.frequire) = "NOT_PRODUCED"
    /\ pdf.fdata = aux.file /\ pdf.fdata # <<>>

\* What lzw_encode has produced is decoded to the end
Decoded(d) == phase = "written" /\ aux.encoded /\ d.done

\* C15: LZW round trip.  For every byte string, the empty one and those
\* that drive the codes beyond 9 bits included, the reference decoder with
\* EarlyChange 0 decodes the output of lzw_encode without error to exactly
\* the string encoded.
C15_LzwRoundTrip ==
    Decoded(shadow.ec0) => ~shadow.ec0.err /\ shadow.ec0.out = pdf.pagebuf

\* The bytes the decoder of EarlyChange 1, the default of a reader, gets
\* out of the same output are the string encoded
LzwBytesEarlyChange1 == Decoded(shadow.ec1) => shadow.ec1.out = pdf.pagebuf

\* The stream object written by wrpage
StreamOf(fdata) == fdata[Len(fdata)]

\* C16: LZW fallback.  The content stream carries /Filter /LZWDecode, with
\* /Length the encoded size, /DL the raw size and the encoded bytes, if and
\* only if compression is not disabled and the encoded size is strictly
\* smaller than the raw size; otherwise it carries the raw bytes with
\* /Length the raw size and neither /DL nor /Filter.
C16_LzwFallback ==
    phase = "written" =>
        LET blk == StreamOf(pdf.fdata)
            raw == pdf.pagebuf
            enc == pdf.lzw.outbuf
            lzw == "UNCOMPRESSED" \notin pdf.flags /\ Len(enc) < Len(raw)
        IN  /\ blk.t = "stream"
            /\ (blk.filter = "LZWDecode") <=> lzw
            /\ lzw => blk.length = Len(enc) /\ blk.dl = Len(raw) /\ blk.data = enc
            /\ ~lzw => /\ blk.length = Len(raw) /\ blk.data = raw
                       /\ blk.filter = "" /\ blk.dl = 0

\* a stream whose encoded size equals its raw size has been written as text
C16_Witness ==
    /\ phase = "written"
    /\ aux.encoded
    /\ pdf.pbused > 0
    /\ Len(pdf.lzw.outbuf) = pdf.pbused
    /\ StreamOf(pdf.fdata).filter = ""

\* pdf_print has accepted a pitch sequence that began with the parser idle
PitchPrinted(digits) ==
    /\ aux.op = "print"
    /\ aux.str = PitchSeq(digits)
    /\ aux.pre.escstate = ESC_IDLE
    /\ pdf.ret = "OK"

\* C17: pitch selection.  After CSI Pn z without intermediates and private
\* marker the pending pitch newlpi is 6 when Pn is 1 or omitted, 8 when Pn
\* is 2, and what it was for another Pn; the pitch of the current page
\* stays what it was.
C17_PitchSelection ==
    /\ PitchPrinted(<<>>) \/ PitchPrinted(<<49>>) => pdf.newlpi = 6
    /\ PitchPrinted(<<50>>) => pdf.newlpi = 8
    /\ PitchPrinted(<<51>>) => pdf.newlpi = aux.pre.newlpi
    /\ \A d \in {<<>>, <<49>>, <<50>>, <<51>>} : PitchPrinted(d)
          => pdf.lpi = aux.pre.lpi

\* The name ends in a dot and the three letters pdf in either case
EndsInPdf(name) ==
    /\ Len(name) >= 4
    /\ name[Len(name) - 3] = "."
    /\ <<tolower(name[Len(name) - 2]), tolower(name[Len(name) - 1]),
         tolower(name[Len(name)])>> = <<"p", "d", "f">>

\* C18: pdf_open called with a name returns a context if and only if the
\* name ends in .pdf, compared without regard to case; for every other
\* name it returns no context and errno is BAD_FILENAME.
C18_OpenFilename ==
    phase = "called" /\ aux.filename # NULLS =>
        /\ pdf # NoContext <=> EndsInPdf(aux.filename)
        /\ pdf = NoContext => aux.errno = "BAD_FILENAME"

\* The line that pdf_where is asked about, 1-based
CurrentLine(p) == IF p.line = 0 THEN p.tof + 1 ELSE p.line

\* C19: pdf_where, once the geometry of the session is fixed, reports the
\* page 1 + pages emitted + previous page count and the current line; a
\* position k >= 1 lines past the last line lpp is reported as line k of
\* the following page; the line reported lies in 1..lpp.
C19_WherePosition ==
    aux.op = "where" /\ pdf.lpp > 0 =>
        LET l == CurrentLine(pdf)
            here == 1 + pdf.page + pdf.prevpc
        IN  /\ l <= pdf.lpp => aux.where = [page |-> here, line |-> l]
            /\ l > pdf.lpp =>
                  aux.where = [page |-> here + 1, line |-> l - pdf.lpp]
            /\ aux.where.line \in 1..pdf.lpp

\* the part of C19 for the positions on the page
WhereOnPage ==
    aux.op = "where" /\ pdf.lpp > 0 /\ CurrentLine(pdf) <= pdf.lpp =>
        aux.where = [page |-> 1 + pdf.page + pdf.prevpc,
                     line |-> CurrentLine(pdf)]

\* The object k of the file as its last xref table locates it
Located(fdata, k) ==
    fdata[fdata[fdata[Len(fdata)].startxref + 1].offs[k] + 1]

\* C20: layout of a new file.  A new file closed with P pages holds the
\* objects 1..2P+5 and its xref table leads to each of them: 1..P the
\* content streams, P+1 the kids list of the P leaves with /Parent the
\* anchor, P+2 the fonts, P+3..2P+2 the leaves (leaf i with /Contents i
\* and /Parent P+1), 2P+3 the anchor, 2P+4 the catalog with /Pages the
\* anchor, 2P+5 the info object; also when checkpoints were taken.
C20_NewFileLayout ==
    phase = "closed" /\ aux.nsessions = 1 /\ HasTrailer(pdf.fdata) =>
        LET f == pdf.fdata
            P == pdf.page
            tr == f[Len(f)]
            xr == f[tr.startxref + 1]
        IN  /\ xr.first = 0 /\ xr.n = 2 * P + 6 /\ Len(xr.offs) = 2 * P + 5
            /\ tr.size = 2 * P + 6 /\ tr.root = 2 * P + 4 /\ tr.info = 2 * P + 5
            /\ \A k \in 1..(2 * P + 5) :
                  /\ xr.offs[k] + 1 \in 1..Len(f)
                  /\ ObjIs(Located(f, k), k)
            /\ \A i \in 1..P :
                  /\ Located(f, i).t = "stream"
                  /\ Located(f, P + 2 + i).t = "page"
                  /\ Located(f, P + 2 + i).contents = i
                  /\ Located(f, P + 2 + i).parent = P + 1
                  /\ Located(f, P + 2 + i).font = P + 2
            /\ Located(f, P + 1).t = "pages"
            /\ Located(f, P + 1).kids = [i \in 1..P |-> P + 2 + i]
            /\ Located(f, P + 1).count = P
            /\ Located(f, P + 1).parent = 2 * P + 3
            /\ Located(f, P + 2).t = "fonts"
            /\ Located(f, 2 * P + 3).t = "pages"
            /\ Located(f, 2 * P + 3).kids = <<P + 1>>
            /\ Located(f, 2 * P + 3).parent = 0
            /\ Located(f, 2 * P + 4).t = "catalog"
            /\ Located(f, 2 * P + 4).pages = 2 * P + 3
            /\ Located(f, 2 * P + 5).t = "info"

\* a new file closed with two pages or more, after a checkpoint taken when
\* a page had been written and before another one was
C20_Witness ==
    /\ phase = "closed"
    /\ aux.nsessions = 1
    /\ HasTrailer(pdf.fdata)
    /\ aux.ckpt
    /\ pdf.checkpp >= 2
    /\ pdf.page >= pdf.checkpp

\* C21: fatal errors are sticky.  Once a print has failed after output had
\* begun, every print, checkpoint and close that follows returns a code
\* other than OK, until pdf_clearerr is called.
C21_StickyErrors ==
    aux.was /\ aux.op \in {"print", "checkpoint", "close"} => pdf.ret # "OK"

\* the part of C21 for the calls made while the headers are written
StickyWhileWritten ==
    /\ aux.was
    /\ aux.op \in {"print", "checkpoint", "close"}
    /\ "WRITTEN" \in aux.pre.flags
    => pdf.ret # "OK"

\* The positions of the blocks of type t in the file
BlocksOf(fdata, t) == {i \in 1..Len(fdata) : fdata[i].t = t}

\* C22: image form.  When the form of the session is an image, the file
\* closed holds the image XObject exactly once, every /Page leaf names it
\* as /XObject /form, and the content stream of the first page is the
\* object after the image.
C22_ImageForm ==
    /\ phase = "closed"
    /\ aux.pre.formtype = PDF_JPEG
    /\ HasTrailer(pdf.fdata)
    => /\ Cardinality(BlocksOf(pdf.fdata, "image")) = 1
       /\ \A i \in BlocksOf(pdf.fdata, "image") :
             /\ pdf.formobj = pdf.fdata[i].obj
             /\ \A l \in BlocksOf(pdf.fdata, "page") :
                   /\ pdf.fdata[l].xobject = pdf.fdata[i].obj
                   /\ pdf.fdata[l].contents > pdf.fdata[i].obj
             /\ \E l \in BlocksOf(pdf.fdata, "page") :
                   pdf.fdata[l].contents = pdf.fdata[i].obj + 1

\* The state of the parser
ParserOf(p) ==
    [escstate |-> p.escstate, escints |-> p.escints, escin |-> p.escin,
     escprv |-> p.escprv, escpars |-> p.escpars, escpn |-> p.escpn,
     newlpi |-> p.newlpi]

C24_IdleAfterCSI ==
    /\ \A d \in {<<>>, <<49>>, <<50>>, <<51>>} :
          PitchPrinted(d) => pdf.escstate = ESC_IDLE
    /\ aux.op = "print" /\ aux.str = <<88>> /\ pdf.ret = "OK"
          => pdf.lines # aux.pre.lines

\* The characters on the lines of the page and the blocks of the file
Emitted(p) == [lines |-> p.lines, line |-> p.line, page |-> p.page,
               fdata |-> p.fdata]

\* C25: in a control string (after OSC, PM or APC) every byte other than
\* LF, CR and FF is discarded and the parser stays in BADSTR until CAN, SUB
\* or ST (0x9C or ESC \); nothing else leaves the state.
C25_BadStrAbsorbs ==
    /\ aux.instr => pdf.escstate = ESC_BADSTR
    /\ aux.wasinstr /\ aux.seven # <<LF>> => pdf.lines = aux.pre.lines

\* C26: a CSI parameter whose decimal value reaches 2^15 puts the parser
\* in BADCSI, and while parameters are collected the parameter stored is
\* the number typed.
C26_ParamOverflow ==
    aux.typed >= 0 =>
        /\ aux.typed >= ESC_POVERFLOW => shadow.escstate = ESC_BADCSI
        /\ shadow.escstate = ESC_CSIP =>
              shadow.escpars[shadow.escpn + 1] = aux.typed

\* C27: ESC followed by a byte b of 0x40..0x5F leaves the parser state,
\* the parameters, the intermediates and the output that the C1 byte
\* b + 0x40 leaves.
C27_CodeExtension ==
    /\ pdf.escstate = shadow.escstate
    /\ pdf.escpars = shadow.escpars
    /\ pdf.escints = shadow.escints
    /\ Emitted(pdf) = Emitted(shadow)

\* The line stored at position l of the page before the last call
OldLine(l) == IF l <= Len(aux.pre.lines) THEN aux.pre.lines[l] ELSE <<>>

\* The line at position l of the page now
NewLine(l) == IF l <= Len(pdf.lines) THEN pdf.lines[l] ELSE <<>>

\* The last call printed one byte (X, LF or FF) and emitted a page
PageEmitted ==
    /\ aux.op = "print" /\ pdf.ret = "OK"
    /\ aux.str \in {<<88>>, <<LF>>, <<FF>>}
    /\ pdf.page = aux.pre.page + 1

\* A line beyond lpp held text when the page was emitted
SomeCarried == \E l \in 1..pdf.tof : OldLine(pdf.lpp + l) # <<>>

\* The content stream written last
LastStream ==
    LET k == CHOOSE i \in BlocksOf(pdf.fdata, "stream") :
                 \A j \in BlocksOf(pdf.fdata, "stream") : j <= i
    IN  pdf.fdata[k]

Overprints(line) ==
    {i \in 1..Len(line) :
        line[i] = CR /\ \E j \in (i + 1)..Len(line) : line[j] \notin {CR, 32}}

\* The text strings of a line by the rule of overprinting: the line is cut
\* at each CR marker of Overprints, and the CR markers are left out
RefSegments(line) ==
    LET cuts == Overprints(line)
        from(k) == IF k = 1 THEN 1
                   ELSE 1 + (CHOOSE i \in cuts :
                                Cardinality({j \in cuts : j <= i}) = k - 1)
        upto(k) == IF k = Cardinality(cuts) + 1 THEN Len(line)
                   ELSE (CHOOSE i \in cuts :
                            Cardinality({j \in cuts : j <= i}) = k) - 1
        NotCR(c) == c # CR
    IN  IF line = <<>> THEN <<>>
        ELSE [k \in 1..(Cardinality(cuts) + 1) |->
                 SelectSeq(SubSeq(line, from(k), upto(k)), NotCR)]

\* C29: overprint rendering.  In every content stream written, a line is
\* shown as the text strings that its CR markers followed by a character
\* other than CR and space cut it into; a CR followed by CRs and spaces
\* only cuts nothing, and no text string holds a CR.
C29_Overprint ==
    \A i \in BlocksOf(pdf.fdata, "stream") :
        LET blk == pdf.fdata[i]
        IN  \A l \in 1..Len(blk.text) :
               /\ blk.show[l] = RefSegments(blk.text[l])
               /\ \A k \in 1..Len(blk.show[l]) :
                     \A c \in 1..Len(blk.show[l][k]) : blk.show[l][k][c] # CR

\* a page is written whose first line holds X, a CR, Y and a last CR: two
\* text strings, X and Y
C29_Witness ==
    /\ phase = "closed"
    /\ aux.str = <<88, CR, 89, CR>>
    /\ \E i \in BlocksOf(pdf.fdata, "stream") :
          /\ pdf.fdata[i].text[1] = <<88, CR, 89, CR>>
          /\ pdf.fdata[i].show[1] = << <<88>>, <<89>> >>

\* A step of lzw_encode has been made: the clear code at the start, a byte
\* of the loop, or the end
Encoding == phase \in {"encode", "encoded"}

\* The step was a turn of the loop or the end of lzw_encode
LoopStep == Encoding /\ aux.was.codesize # 0

\* The codes that the step has written, each with the width used; the bits
\* that fill the last byte (fewer than 8) are not codes
CodesSent ==
    {i \in 1..Len(pdf.lzw.sent) : pdf.lzw.sent[i][2] >= 8}

\* The step has written a clear code
Cleared == \E i \in CodesSent : pdf.lzw.sent[i][1] = LZW_CLRCODE

\* C30: LZW code width.  The code size is in 9..12; it is 9 after every
\* clear code; a turn of the loop changes it from w to w+1 exactly when it
\* assigns code 2^w - 1 with w < 12, after it has written its code at
\* width w; every code written is less than 2^width, with the width in
\* 9..12.
C30_CodeWidth ==
    Encoding =>
        /\ pdf.lzw.codesize \in LZW_MINBITS..LZW_MAXBITS
        /\ \A i \in CodesSent :
              /\ pdf.lzw.sent[i][2] \in LZW_MINBITS..LZW_MAXBITS
              /\ pdf.lzw.sent[i][1] < 2^(pdf.lzw.sent[i][2])
        /\ Cleared => pdf.lzw.codesize = LZW_MINBITS
        /\ LoopStep /\ ~Cleared =>
              LET w == aux.was.codesize
                  grows == /\ pdf.lzw.assigned = aux.was.assigned + 1
                           /\ pdf.lzw.assigned = 2^w - 1
                           /\ w < LZW_MAXBITS
              IN  /\ pdf.lzw.codesize = IF grows THEN w + 1 ELSE w
                  /\ grows => pdf.lzw.sent[1][2] = w
        /\ LoopStep => \A i \in CodesSent : pdf.lzw.sent[i][2] = aux.was.codesize

\* code 511 was assigned at code size 9, after a code was written at width
\* 9: the code size is 10
C30_Witness ==
    /\ phase = "encode"
    /\ aux.was.codesize = LZW_MINBITS
    /\ pdf.lzw.assigned = 2^LZW_MINBITS - 1
    /\ pdf.lzw.codesize = LZW_MINBITS + 1
    /\ Len(pdf.lzw.sent) = 1
    /\ pdf.lzw.sent[1][2] = LZW_MINBITS

\* The byte that the last turn of the loop has taken
TurnByte == pdf.pagebuf[pdf.pos]

\* The directory after lzw_init: the 258 identity and special codes
FreshDict ==
    [i \in 0..(LZW_IDCODES - 1) |->
        [prev |-> TREE_NULL, first |-> TREE_NULL, next |-> TREE_NULL, ch |-> i]]

\* C31: LZW dictionary-full policy.  After each turn of the loop of
\* lzw_encode: the codes assigned are 258..assigned <= 4095; a turn that
\* finds its pair keeps the directory; a turn that does not writes the
\* prefix and, while a code below 4096 is free, assigns the next code to
\* the pair and leaves every code assigned before as it was (but for the
\* link of the prefix to its newest child); when code
\* 4096 would be needed it writes the prefix and the clear code at width
\* 12, leaves the directory reset with code size 9 and the pair not
\* inserted; in each case the byte taken is the new prefix or the end of
\* the string found.  What is written decodes to the bytes encoded.
C31_DictionaryFull ==
    /\ phase = "encode" /\ aux.was.codesize # 0 =>
          LET was == aux.was
              lzw == pdf.lzw
          IN  /\ lzw.assigned \in (LZW_IDCODES - 1)..(LZW_DSIZE - 1)
              /\ DOMAIN lzw.dict = 0..lzw.assigned
              /\ lzw.sent = <<>> =>
                    /\ lzw.dict = was.dict /\ lzw.assigned = was.assigned
                    /\ pdf.code \in LZW_IDCODES..lzw.assigned
                    /\ lzw.dict[pdf.code].prev = was.code
                    /\ lzw.dict[pdf.code].ch = TurnByte
              /\ lzw.sent # <<>> /\ was.assigned < LZW_DSIZE - 1 =>
                    /\ lzw.sent = << <<was.code, was.codesize>> >>
                    /\ lzw.assigned = was.assigned + 1
                    /\ lzw.dict[lzw.assigned].prev = was.code
                    /\ lzw.dict[lzw.assigned].ch = TurnByte
                    /\ [lzw.dict EXCEPT ![was.code].first =
                                             was.dict[was.code].first]
                          = was.dict @@ (lzw.assigned :> lzw.dict[lzw.assigned])
                    /\ pdf.code = TurnByte
              /\ lzw.sent # <<>> /\ was.assigned = LZW_DSIZE - 1 =>
                    /\ lzw.sent = << <<was.code, LZW_MAXBITS>>,
                                     <<LZW_CLRCODE, LZW_MAXBITS>> >>
                    /\ lzw.assigned = LZW_IDCODES - 1
                    /\ lzw.codesize = LZW_MINBITS
                    /\ lzw.dict = FreshDict
                    /\ pdf.code = TurnByte
    /\ Decoded(shadow.ec1) =>
          ~shadow.ec1.err /\ shadow.ec1.out = pdf.pagebuf

\* the turn that needs code 4096: the prefix and the clear code are
\* written at width 12 and the directory is reset
C31_Witness ==
    /\ phase = "encode"
    /\ aux.was.assigned = LZW_DSIZE - 1
    /\ pdf.lzw.sent # <<>>
    /\ pdf.lzw.sent[2] = <<LZW_CLRCODE, LZW_MAXBITS>>
    /\ pdf.lzw.assigned = LZW_IDCODES - 1
    /\ pdf.code = TurnByte

\* The state from which SpecFull starts in the loop is the state that the
\* turns from the start of the stream reach
FullStartReached ==
    phase = "encode" /\ pdf.pbused > 1 /\ pdf.pos = FullStart =>
        LET z == EncodeRange(pdf.pagebuf,
                             EncodedTo(pdf.pagebuf, FullStart - 1),
                             FullStart, FullStart)
        IN  pdf.lzw = z.lzw /\ pdf.code = z.code

----------------------------------------------------------------------------
\* C32: a checkpoint leaves the object count, the current line, the page
\* count of the session, the line buffer, the state of the hash and the
\* position in the file as they were before the call; of the flags only
\* WRITTEN is cleared and RESUMED set; a second checkpoint with no print
\* in between changes nothing further.
C32_CheckpointFrame ==
    aux.op = "checkpoint" =>
        /\ pdf.obj = aux.pre.obj
        /\ pdf.line = aux.pre.line
        /\ pdf.page = aux.pre.page
        /\ pdf.lines = aux.pre.lines
        /\ pdf.sha1 = aux.pre.sha1
        /\ pdf.fpos = aux.pre.fpos
        /\ pdf.flags = IF "WRITTEN" \in aux.pre.flags
                       THEN (aux.pre.flags \ {"WRITTEN"}) \cup {"RESUMED"}
                       ELSE aux.pre.flags
        /\ [pdf_checkpoint(pdf) EXCEPT !.ret = pdf.ret] = pdf

\* A checkpoint of a session that had written a whole page and part of
\* the next one, and had hashed its data
C32_Witness ==
    /\ aux.op = "checkpoint"
    /\ "WRITTEN" \in aux.pre.flags
    /\ pdf.ret = "OK"
    /\ pdf.line # 0
    /\ pdf.page >= 1
    /\ pdf.sha1.data # <<>>
    /\ ~pdf.sha1.done
    /\ Len(pdf.fdata) > pdf.fpos

----------------------------------------------------------------------------
\* C33: a print call of length zero never modifies the file, under every
\* file policy: the file is after the call what it was before; and a
\* session closed after only such calls leaves the file as it was opened.
C33_NoDataNoWrite ==
    /\ (aux.op = "print" /\ aux.str = <<>>) => pdf.fdata = aux.pre.fdata
    /\ (aux.op = "close" /\ aux.raw = <<>>) => pdf.fdata = aux.file

----------------------------------------------------------------------------
\* The fields of the context that pdf_set sets
ConfigKeys ==
    { "frequire", "cpi", "lpi", "cols", "wid", "len", "font", "nfont",
      "nbold", "title", "top", "tof", "bot", "margin", "lno", "formtype",
      "barh", "formfile" }

\* C34: a first print call that fails before any byte is written, with
\* INCON_GEO or NOT_EMPTY, leaves every configuration key, a tof still at
\* its default included, at its value before the call, and a set call
\* that follows is not refused with ACTIVE.
C34_FailedPrintRestores ==
    ( /\ aux.op = "print"
      /\ "WRITTEN" \notin aux.pre.flags
      /\ pdf.ret \in {"INCON_GEO", "NOT_EMPTY"} ) =>
        /\ \A key \in ConfigKeys : pdf[key] = aux.pre[key]
        /\ "ACTIVE" \notin pdf.flags

----------------------------------------------------------------------------
\* C35: a rejected set call does not poison later output: when a set call
\* has failed and print is then called with data and a configuration with
\* which it would succeed, without clearerr in between, print returns OK
\* and stores and paginates the data as it would have done without the
\* rejected set.
C35_RejectedSetHarmless ==
    ( /\ aux.op = "print"
      /\ aux.str # <<>>
      /\ aux.pre.errnum # "OK"
      /\ pdf_print([aux.pre EXCEPT !.errnum = "OK"], aux.str).ret = "OK" ) =>
        /\ pdf.ret = "OK"
        /\ pdf.lines = pdf_print([aux.pre EXCEPT !.errnum = "OK"], aux.str).lines
        /\ pdf.line = pdf_print([aux.pre EXCEPT !.errnum = "OK"], aux.str).line

----------------------------------------------------------------------------
\* C36: the local accumulator of print never overflows: every store
\* lbuf[nc] has nc < 150, also for a run of more than 150 ordinary
\* characters with no LF or FF in one print call.
C36_LbufInBounds == ~pdf.overrun

----------------------------------------------------------------------------
\* C37: the bookkeeping of the parser stays in bounds for every sequence
\* of bytes: escpars[escpn] is read and written only with escpn <= 15,
\* intermediates are stored in escints only at the indices 0..3 and, for
\* ESC sequences, in escpars only at 0..15, and escstate is always one of
\* the eight states.
C37_ParserInBounds ==
    /\ ~pdf.escoob
    /\ pdf.escstate \in ESC_IDLE..ESC_BADSTR
    /\ pdf.escstate \in {ESC_CSI, ESC_CSIP} => pdf.escpn <= 15
    /\ pdf.escstate \in {ESC_CSI, ESC_CSIP, ESC_CSIINT} => pdf.escin <= 4
    /\ pdf.escin <= 16
    /\ DOMAIN pdf.escints = 1..4
    /\ DOMAIN pdf.escpars = 1..16

\* The sixteenth parameter was given and the sequence went on: escpn is
\* 16, past the last parameter, and is not used as an index
C37_Witness ==
    /\ aux.op = "print"
    /\ aux.pre.escstate = ESC_CSIP
    /\ aux.pre.escpn = 15
    /\ pdf.escstate = ESC_CSIINT
    /\ pdf.escpn = 16
    /\ ~pdf.escoob

----------------------------------------------------------------------------
\* The page list of the last session of a file: the last of the /Kids of
\* the root of the page tree
LastList(fdata) ==
    Deref(fdata, fdata[fdata[Len(fdata)].startxref + 1].offs,
          RootPages(fdata).kids[Len(RootPages(fdata).kids)])

\* C38: a file that a session has written and closed holds at least one
\* page: whenever close writes a page tree, the /Kids of the page list of
\* the session is not empty and the /Count of the root is at least 1.
C38_AtLeastOnePage ==
    ( /\ aux.op = "close"
      /\ pdf.ret = "OK"
      /\ pdf.fdata # aux.pre.fdata ) =>
        /\ LastList(pdf.fdata).t = "pages"
        /\ LastList(pdf.fdata).kids # <<>>
        /\ RootPages(pdf.fdata).count >= 1

----------------------------------------------------------------------------
\* The xref table that the trailer of a file leads to
XrefOffs(fdata) == fdata[fdata[Len(fdata)].startxref + 1].offs

\* C39: append preserves the earlier sessions.  In an append session that
\* has written to a file that held a PDF, when the session is closed and
\* while the file is as a checkpoint left it: the objects numbered below
\* the anchor of the file opened lie before it and nothing before it is
\* modified; the xref entries of the objects up to and including that
\* anchor are those of the file opened; and the first new object takes
\* the number of the catalog of the file opened, which follows the anchor,
\* and lies where that catalog lay.
C39_AppendPreserves ==
    (phase = "closed" \/ aux.complete)
        /\ aux.nsessions > 1 /\ aux.size > 0 /\ aux.wrote =>
        LET old  == aux.file
            root == old[Len(old)].root
            a    == aux.anchor.obj
        IN  /\ \A obj \in 1..(a - 1) : XrefOffs(old)[obj] < aux.anchor.offs
            /\ SubSeq(pdf.fdata, 1, aux.anchor.offs)
                   = SubSeq(old, 1, aux.anchor.offs)
            /\ SubSeq(XrefOffs(pdf.fdata), 1, a) = SubSeq(XrefOffs(old), 1, a)
            /\ root = a + 1
            /\ pdf.fdata[aux.anchor.offs + 2].obj = root
            /\ XrefOffs(pdf.fdata)[root] = XrefOffs(old)[root]
            /\ pdf.fdata[aux.anchor.offs + 2] # old[aux.anchor.offs + 2]

\* An append session that emitted a page is closed: the first page stream
\* has the number of the catalog of the file opened
C39_Witness ==
    /\ phase = "closed" /\ aux.nsessions > 1 /\ aux.size > 0 /\ aux.wrote
    /\ pdf.page > 0
    /\ aux.anchor.obj > 1
    /\ pdf.fdata[aux.anchor.offs + 2].t = "stream"
    /\ pdf.fdata[aux.anchor.offs + 2].obj = aux.file[Len(aux.file)].root
    /\ aux.file[aux.anchor.offs + 2].t = "catalog"

=============================================================================
